---- MODULE Spec2Model ----
(***************************************************************************)
(* A model of @fizzwiz/ensemble: Player, Ensemble, Event, Cue and Ostinato. *)
(* Every method is a function from machine state to machine state (the     *)
(* record built by Cur), translated statement by statement; a JavaScript   *)
(* exception is the field `threw`, which makes every later statement of    *)
(* the same call a no-op, so that the state an exception leaves behind is  *)
(* the state the code leaves behind.                                       *)
(***************************************************************************)
EXTENDS Integers, Sequences, FiniteSets, TLC

VARIABLES
  playing,    \* Player.playing, per object
  name,       \* Player.name, per object ("undefined" when unset)
  ensemble,   \* Player.ensemble, per object ("undefined" when unset)
  players,    \* Ensemble.players: the Map, as the sequence of its entries
  attached,   \* Cue._attached
  registered, \* listeners the external emitter holds for the Cue's event
  stopped,    \* Ostinato._what.stopped
  fresh,      \* Ensembles not constructed yet, in the order get(name, true) constructs them
  lastOp,     \* per Ensemble and name: the last add/remove/trim that touched it
  call,       \* the last call made from outside: method, receiver, arguments, outcome
  log,        \* what the last call delivered to listeners, in order
  invoked,    \* play()/pause() calls the last call made on other objects, in order
  clean,      \* no call so far has ended in a RangeError
  steps,      \* number of calls made so far
  listeners,  \* per Player: the listeners its EventEmitter holds, in registration order
  heard,      \* every listener notification so far, in order, with the call it belongs to
  promise,    \* per call of Cue.promise: the awaitable, its timer and its bookkeeping
  config,     \* per Ostinato: nTimes, baseDelay, factor, maxDelay as given to the constructor
  runs,       \* per Ostinato: the repetitions started by _what(), one per call
  invocations, \* per Ostinato: how many times the refrain has been invoked
  methods,    \* the methods the Cue's external emitter exposes
  prepend,    \* Cue._opts.prepend
  dom,        \* listeners the emitter holds through addEventListener
  event       \* Cue._event, per Cue ("undefined" while the Cue is not constructed)

vars == <<playing, name, ensemble, players, attached, registered, stopped,
          fresh, lastOp, call, log, invoked, clean, steps, listeners, heard,
          promise, config, runs, invocations, methods, prepend, dom, event>>

\* ---------------------------------------------------------------- bounds
MaxOps == 3
\* Calls of on() and emit() in the behaviours of SpecEmit.
MaxEmitOps == 6
\* Listeners one Player holds.
MaxListeners == 2
\* Calls of promise(), play(), pause() and firings in the behaviours of SpecPromise.
MaxPromiseOps == 6
\* The same, in the behaviours of SpecPromiseFair.
MaxTimeoutOps == 4
\* Calls of play() and pause() on an Ostinato in the behaviours of SpecOstinato.
MaxOstinatoOps == 4
MaxSortOps == 2
MaxLetOps == 4
MaxCueOps == 4
MaxTreeOps == 4

\* ---------------------------------------------------------------- objects
Undef == "undefined"
None == "none"

Ensembles == {"E1", "E2", "E3"}
BasePlayers == {"P1"}
Cues == {"Q1"}
Ostinatos == {"O1"}
Objects == Ensembles \cup BasePlayers \cup Cues \cup Ostinatos
Names == {"a", "b"}
EventTypes == {"e"}
\* new Player(name): the argument a base Player is constructed with.
ConstructorNames == {Undef, "b"}

\* ---------------------------------------------------------------- the Map
MapHas(m, k) == \E i \in 1..Len(m) : m[i].key = k

MapGet(m, k) ==
  IF MapHas(m, k) THEN m[CHOOSE i \in 1..Len(m) : m[i].key = k].val ELSE Undef

MapSet(m, k, v) ==
  IF MapHas(m, k)
  THEN [i \in 1..Len(m) |-> IF m[i].key = k THEN [key |-> k, val |-> v] ELSE m[i]]
  ELSE Append(m, [key |-> k, val |-> v])

MapDelete(m, k) == SelectSeq(m, LAMBDA x : x.key # k)

MapKeys(m) == [i \in 1..Len(m) |-> m[i].key]

MapValues(m) == [i \in 1..Len(m) |-> m[i].val]

\* ---------------------------------------------------------------- machine state
Cur ==
  [playing |-> playing, name |-> name, ensemble |-> ensemble, players |-> players,
   attached |-> attached, registered |-> registered, stopped |-> stopped,
   fresh |-> fresh, lastOp |-> lastOp,
   listeners |-> listeners, heard |-> heard, tick |-> steps + 1,
   promise |-> promise, config |-> config, runs |-> runs, invocations |-> invocations,
   methods |-> methods, prepend |-> prepend, dom |-> dom, event |-> event,
   log |-> <<>>, invoked |-> <<>>, threw |-> None, ret |-> Undef]

Throw(st, err) == IF st.threw # None THEN st ELSE [st EXCEPT !.threw = err]

\* ---------------------------------------------------------------- Event
\* An Event; `source` is the empty sequence when undefined, else <<event>>.
Event(emitter, type, args, sourceEvent) ==
  [emitter |-> emitter, type |-> type, args |-> args, source |-> sourceEvent]

\* The type of a user event, and the PropertyChangeEvent object `let` passes as type.
UserType(t) == [kind |-> t, isObject |-> FALSE, args |-> <<>>]

PropertyChangeEvent(emitter, propertyName, oldValue, newValue) ==
  [kind |-> "propertychange", isObject |-> TRUE,
   args |-> <<propertyName, oldValue, newValue>>]

\* The key EventEmitter files listeners under: an object coerces to a string.
ListenerKey(type) == IF type.isObject THEN "[object Object]" ELSE type.kind

RECURSIVE wasEmittedBy(_, _)
wasEmittedBy(ev, emitter) ==
  \/ ev.emitter = emitter
  \/ (ev.source # <<>> /\ wasEmittedBy(ev.source[1], emitter))

RECURSIVE propagationPath(_)
propagationPath(ev) ==
  IF ev.source = <<>> THEN <<ev.emitter>>
  ELSE Append(propagationPath(ev.source[1]), ev.emitter)

RECURSIVE origin(_)
origin(ev) == IF ev.source = <<>> THEN ev ELSE origin(ev.source[1])

\* ---------------------------------------------------------------- Player
\* Frames a call chain may nest before JavaScript raises RangeError. A chain of
\* ensemble links or of nested play() calls longer than the number of objects
\* revisits an object and so never ends.
StackLimit == Cardinality(Objects) + 1

Show(field, v) == IF field = "playing" THEN (IF v THEN "true" ELSE "false") ELSE v

\* emit delivers srcEvent to the listeners of p (log) and bubbles. On a cyclic
\* chain of ensembles the deliveries go on until the stack is exhausted; the
\* log keeps the first StackLimit of them.
\* EventEmitter.emit(key, ...): calls the listeners p holds under key, one after
\* the other in registration order, before it returns.
RECURSIVE Notify(_, _, _, _)
Notify(st, p, key, i) ==
  IF i > Len(st.listeners[p]) THEN st
  ELSE Notify(IF st.listeners[p][i].key = key
              THEN [st EXCEPT !.heard = Append(@, [call |-> st.tick, at |-> p,
                                                   by |-> st.listeners[p][i].id])]
              ELSE st,
              p, key, i + 1)

\* emit that bubbles to the Ensemble before it notifies the Player's own listeners.
RECURSIVE emitBubblesFirst(_, _, _, _, _)
emitBubblesFirst(st, p, type, args, depth) ==
  IF st.threw # None THEN st
  ELSE IF depth > StackLimit THEN Throw(st, "RangeError")
  ELSE
    LET srcEvent == Event(p, type, args, <<>>)
        s0 == IF st.ensemble[p] # Undef
              THEN emitBubblesFirst(st, st.ensemble[p], type,
                                    <<Event(st.ensemble[p], type, <<>>, <<srcEvent>>)>>,
                                    depth + 1)
              ELSE st
    IN IF s0.threw # None THEN s0
       ELSE Notify([s0 EXCEPT !.log = Append(@, [at |-> p, key |-> ListenerKey(type),
                                                 ev |-> srcEvent])],
                   p, ListenerKey(type), 1)

RECURSIVE emit(_, _, _, _, _)
emit(st, p, type, args, depth) ==
  IF st.threw # None THEN st
  ELSE IF depth > StackLimit THEN Throw(st, "RangeError")
  ELSE
    LET srcEvent == Event(p, type, args, <<>>)
        s1 == Notify([st EXCEPT !.log = Append(@, [at |-> p, key |-> ListenerKey(type),
                                                   ev |-> srcEvent])],
                     p, ListenerKey(type), 1)
    IN IF s1.ensemble[p] # Undef
       THEN LET bubbled == Event(s1.ensemble[p], type, <<>>, <<srcEvent>>)
            IN emit(s1, s1.ensemble[p], type, <<bubbled>>, depth + 1)
       ELSE s1

let(st, p, field, value) ==
  IF st.threw # None THEN st
  ELSE
    LET oldValue == st[field][p]
    IN IF oldValue = value THEN st
       ELSE emit([st EXCEPT ![field][p] = value], p,
                 PropertyChangeEvent(p, field, Show(field, oldValue), Show(field, value)),
                 <<>>, 1)

PlayerPlay(st, p) == [st EXCEPT !.playing[p] = TRUE]

PlayerPause(st, p) == [st EXCEPT !.playing[p] = FALSE]

\* ---------------------------------------------------------------- Cue
\* The external emitter is any object: `methods` are the recognised methods it
\* exposes. Its addEventListener/removeEventListener keep one list (dom); its
\* on/addListener/prependListener and off/removeListener keep another
\* (registered), as on a Node EventEmitter, where they are aliases.
AttachMethods == {"addEventListener", "prependListener", "on", "addListener"}
DetachMethods == {"removeEventListener", "off", "removeListener"}

\* A Node EventEmitter.
NodeMethods == {"prependListener", "on", "addListener", "off", "removeListener"}

\* The Cue is built with the default opts on a Node EventEmitter.
NodeEmitter ==
  /\ methods = NodeMethods /\ prepend = FALSE /\ dom = <<>>
  /\ event = [c \in Cues |-> "event"]

BoundListener(c) == [owner |-> c, kind |-> "bound"]

\* emitter.prependListener(event, listener)
prependListener(st, listener) == [st EXCEPT !.registered = <<listener>> \o @]

\* Cue.addListener: addEventListener skips a listener the target already has,
\* on() and addListener() append.
addListener(st, listener) ==
  IF "addEventListener" \in st.methods
  THEN IF \E i \in DOMAIN st.dom : st.dom[i] = listener THEN st
       ELSE [st EXCEPT !.dom = Append(@, listener)]
  ELSE IF "prependListener" \in st.methods /\ st.prepend THEN prependListener(st, listener)
  ELSE IF "on" \in st.methods \/ "addListener" \in st.methods
  THEN [st EXCEPT !.registered = Append(@, listener)]
  ELSE Throw(st, "Error")

\* off() removes the most recently added instance of the listener.
emitterOff(st, listener) ==
  LET r == st.registered
      hits == {i \in 1..Len(r) : r[i] = listener}
  IN IF hits = {} THEN st
     ELSE LET last == CHOOSE i \in hits : \A j \in hits : j <= i
          IN [st EXCEPT !.registered =
                SubSeq(r, 1, last - 1) \o SubSeq(r, last + 1, Len(r))]

\* Cue.removeListener
removeListener(st, listener) ==
  IF "removeEventListener" \in st.methods
  THEN [st EXCEPT !.dom = SelectSeq(@, LAMBDA l : l # listener)]
  ELSE IF "off" \in st.methods \/ "removeListener" \in st.methods THEN emitterOff(st, listener)
  ELSE Throw(st, "Error")

\* The values tried as the constructor's event argument, written as JavaScript
\* literals, with their typeof and, for a string, its characters.
EventArgs == {"'click'", "''", "7", "undefined"}

TypeOf(ev) ==
  CASE ev \in {"'click'", "''"} -> "string" [] ev = "7" -> "number" [] OTHER -> "undefined"

Text(ev) == IF ev = "'click'" THEN "click" ELSE ""

\* typeof of the values tried as the listener argument.
ListenerArgs == {"function", "object", "undefined"}

\* new Cue(emitter, event, listener, opts)
CueConstructor(st, c, ev, listener) ==
  IF TypeOf(ev) # "string" THEN Throw(st, "TypeError")
  ELSE IF listener # "function" THEN Throw(st, "TypeError")
  ELSE [st EXCEPT !.event[c] = Text(ev), !.attached[c] = FALSE]

\* play without the test of attached.
CuePlayAlways(st, c) ==
  [addListener(st, BoundListener(c)) EXCEPT !.attached[c] = TRUE]

\* play that marks the Cue attached before it attaches the listener.
CuePlayMarksFirst(st, c) ==
  IF st.attached[c] THEN st
  ELSE LET s0 == [st EXCEPT !.attached[c] = TRUE]
       IN IF s0.prepend /\ "prependListener" \in s0.methods
          THEN prependListener(s0, BoundListener(c))
          ELSE addListener(s0, BoundListener(c))

CuePlay(st, c) ==
  IF st.attached[c] THEN st
  ELSE LET s1 == IF st.prepend /\ "prependListener" \in st.methods
                 THEN prependListener(st, BoundListener(c))
                 ELSE addListener(st, BoundListener(c))
       IN IF s1.threw # None THEN s1 ELSE [s1 EXCEPT !.attached[c] = TRUE]

\* pause that clears the emitter's listeners for the event.
CuePauseRemovesAll(st, c) ==
  IF ~st.attached[c] THEN st
  ELSE [st EXCEPT !.registered = <<>>, !.attached[c] = FALSE]

CuePause(st, c) ==
  IF ~st.attached[c] THEN st
  ELSE LET s1 == removeListener(st, BoundListener(c))
       IN IF s1.threw # None THEN s1 ELSE [s1 EXCEPT !.attached[c] = FALSE]

\* ---------------------------------------------------------------- Cue.promise
\* One identity per call of promise(): it names the awaitable, its handler
\* closure and its timer.
PromiseIds == {"h1", "h2"}

Handler(c, n) == [owner |-> c, kind |-> n]

NoValue == [kind |-> "none", text |-> ""]

\* A promise() call that has not been made yet.
Unborn ==
  [state |-> "unborn", value |-> NoValue, timer |-> "none", attempts |-> 0,
   late |-> FALSE, tidy |-> TRUE, skipped |-> 0, millis |-> 0, pred |-> "defined"]

\* The event the Cue was constructed with.
CueEvent(c) == "event"

\* The listener the Cue was constructed with: it transforms the argument of a
\* firing, returns undefined for some, and throws for others.
rawListener(arg) ==
  CASE arg = "x" -> [kind |-> "value", text |-> "X"]
    [] arg = "empty" -> [kind |-> "value", text |-> ""]
    [] arg = "skip" -> [kind |-> "undefined", text |-> ""]
    [] OTHER -> [kind |-> "throw", text |-> arg]

\* The predicates tried: the default (result => undefined !== result) and
\* result => result.
predicate(pred, result) ==
  IF pred = "defined" THEN result.kind = "value"
  ELSE result.kind = "value" /\ result.text # ""

\* resolve(v) / reject(v): only the first call on an awaitable takes effect.
\* attempts counts the calls; tidy notes whether the handler was off the emitter
\* when the call was made; skipped counts the firings the handler let pass.
settle(st, c, n, how, v) ==
  LET pr == st.promise[n]
      off == \A i \in 1..Len(st.registered) : st.registered[i] # Handler(c, n)
      counted == [pr EXCEPT !.attempts = @ + 1, !.tidy = @ /\ off]
  IN [st EXCEPT !.promise[n] =
        IF pr.state = "pending" THEN [counted EXCEPT !.state = how, !.value = v]
        ELSE counted]

clearTimeout(st, n) ==
  IF st.promise[n].timer = "armed" THEN [st EXCEPT !.promise[n].timer = "cleared"] ELSE st

\* A callback of promise n starts to run: late notes that the awaitable had
\* settled already.
Enter(st, n) ==
  [st EXCEPT !.promise[n].late = @ \/ st.promise[n].state # "pending"]

\* handler that settles and leaves the timer running.
handlerKeepsTimer(st, c, n, arg) ==
  LET s0 == Enter(st, n)
      result == rawListener(arg)
  IN IF result.kind = "throw"
     THEN settle(removeListener(s0, Handler(c, n)), c, n, "rejected",
                 [kind |-> "error", text |-> result.text])
     ELSE IF ~predicate(s0.promise[n].pred, result)
     THEN [s0 EXCEPT !.promise[n].skipped = @ + 1]
     ELSE settle(removeListener(s0, Handler(c, n)), c, n, "resolved", result)

\* handler that resolves with whatever the listener returned, qualifying or not.
handlerSkipsPredicate(st, c, n, arg) ==
  LET s0 == Enter(st, n)
      result == rawListener(arg)
  IN IF result.kind = "throw"
     THEN settle(clearTimeout(removeListener(s0, Handler(c, n)), n), c, n, "rejected",
                 [kind |-> "error", text |-> result.text])
     ELSE settle(clearTimeout(removeListener(s0, Handler(c, n)), n), c, n, "resolved",
                 result)

\* handler that, on settling, takes every promise handler of the Cue off the
\* emitter and not only its own.
handlerDetachesAll(st, c, n, arg) ==
  LET s0 == Enter(st, n)
      result == rawListener(arg)
      swept == [s0 EXCEPT !.registered = SelectSeq(@, LAMBDA l : l.kind = "bound")]
  IN IF result.kind = "throw"
     THEN settle(clearTimeout(swept, n), c, n, "rejected",
                 [kind |-> "error", text |-> result.text])
     ELSE IF ~predicate(s0.promise[n].pred, result)
     THEN [s0 EXCEPT !.promise[n].skipped = @ + 1]
     ELSE settle(clearTimeout(swept, n), c, n, "resolved", result)

\* The handler closure of promise n, called by the emitter with the arguments
\* of a firing.
handler(st, c, n, arg) ==
  LET s0 == Enter(st, n)
      result == rawListener(arg)
  IN IF result.kind = "throw"
     THEN settle(clearTimeout(removeListener(s0, Handler(c, n)), n), c, n, "rejected",
                 [kind |-> "error", text |-> result.text])
     ELSE IF ~predicate(s0.promise[n].pred, result)
     THEN [s0 EXCEPT !.promise[n].skipped = @ + 1]
     ELSE settle(clearTimeout(removeListener(s0, Handler(c, n)), n), c, n, "resolved",
                 result)

\* The timer callback that rejects and leaves the handler on the emitter.
timeoutCallbackKeepsHandler(st, c, n) ==
  settle([Enter(st, n) EXCEPT !.promise[n].timer = "fired"], c, n, "rejected",
         [kind |-> "timeout", text |-> CueEvent(c)])

\* The callback given to setTimeout.
timeoutCallback(st, c, n) ==
  settle(removeListener([Enter(st, n) EXCEPT !.promise[n].timer = "fired"], Handler(c, n)),
         c, n, "rejected", [kind |-> "timeout", text |-> CueEvent(c)])

\* promise that arms the timer for every timeoutMillis, 0 included.
promiseAlwaysArms(st, c, n, timeoutMillis, pred) ==
  LET s1 == [st EXCEPT !.promise[n] = [Unborn EXCEPT !.state = "pending",
                                                    !.millis = timeoutMillis,
                                                    !.pred = pred]]
      s2 == addListener(s1, Handler(c, n))
  IN [s2 EXCEPT !.promise[n].timer = "armed", !.ret = n]

\* promise that never schedules the timer.
promiseNeverArms(st, c, n, timeoutMillis, pred) ==
  LET s1 == [st EXCEPT !.promise[n] = [Unborn EXCEPT !.state = "pending",
                                                    !.millis = timeoutMillis,
                                                    !.pred = pred]]
  IN [addListener(s1, Handler(c, n)) EXCEPT !.ret = n]

\* promise(timeoutMillis, predicate), with a number for timeoutMillis.
promiseOf(st, c, n, timeoutMillis, pred) ==
  LET s1 == [st EXCEPT !.promise[n] = [Unborn EXCEPT !.state = "pending",
                                                    !.millis = timeoutMillis,
                                                    !.pred = pred]]
      s2 == addListener(s1, Handler(c, n))
  IN IF timeoutMillis > 0
     THEN [s2 EXCEPT !.promise[n].timer = "armed", !.ret = n]
     ELSE [s2 EXCEPT !.ret = n]

\* emitter.emit(event, arg) of a Node EventEmitter: the listeners registered
\* when the call starts are called in order; an exception that leaves a
\* listener leaves emit, and the listeners after it are not called.
RECURSIVE emitterEmit(_, _, _, _)
emitterEmit(st, snapshot, i, arg) ==
  IF st.threw # None \/ i > Len(snapshot) THEN st
  ELSE LET l == snapshot[i]
       IN emitterEmit(IF l.kind = "bound"
                      THEN (IF rawListener(arg).kind = "throw"
                            THEN Throw(st, "ListenerError") ELSE st)
                      ELSE handler(st, l.owner, l.kind, arg),
                      snapshot, i + 1, arg)

\* ---------------------------------------------------------------- Ostinato
\* play() and pause() are Ostinato's own; the repetition that _what() starts is
\* AsyncWhat.self of the library @fizzwiz/fluent, taken here as section 4.4 of
\* the specification describes it.
Infinity == 1000000

\* new Ostinato(refrain): nTimes = Infinity, baseDelay = 100, factor = 2,
\* maxDelay = Infinity.
DefaultConfig == [nTimes |-> Infinity, baseDelay |-> 100, factor |-> 2, maxDelay |-> Infinity]

\* The constructor that hands factor and maxDelay over in the wrong order.
selfOfSwapped(cfg) ==
  [nTimes |-> cfg.nTimes, baseDelay |-> cfg.baseDelay, factor |-> cfg.maxDelay,
   maxDelay |-> cfg.factor]

\* AsyncWhat.as(refrain).self(nTimes, baseDelay, factor, maxDelay): what the
\* constructor hands over to the repetition.
selfOf(cfg) ==
  [nTimes |-> cfg.nTimes, baseDelay |-> cfg.baseDelay, factor |-> cfg.factor,
   maxDelay |-> cfg.maxDelay]

Invoked(st, o) == [st EXCEPT !.invocations[o] = @ + 1]

\* The delay never exceeds the ceiling.
Capped(d, ceiling) == IF d > ceiling THEN ceiling ELSE d

OneLess(n) == IF n = Infinity THEN Infinity ELSE n - 1

\* _what(): a repetition starts. The refrain is invoked, then the repetition
\* waits for the current delay, unless the iteration count is exhausted.
what(st, o) ==
  LET cfg == selfOf(st.config[o])
      first == Capped(cfg.baseDelay, cfg.maxDelay)
  IN IF cfg.nTimes <= 0
     THEN [st EXCEPT !.runs[o] = Append(@, [left |-> 0, delay |-> first, done |-> TRUE])]
     ELSE [Invoked(st, o) EXCEPT
             !.runs[o] = Append(@, [left |-> OneLess(cfg.nTimes), delay |-> first,
                                    done |-> cfg.nTimes = 1])]

\* The wait of repetition i is over: a stop request ends the repetition;
\* otherwise the refrain is invoked again and the delay grows by the factor, up
\* to the ceiling.
elapse(st, o, i) ==
  LET cfg == selfOf(st.config[o])
      r == st.runs[o][i]
      grown == Capped(r.delay * cfg.factor, cfg.maxDelay)
  IN IF st.stopped[o] THEN [st EXCEPT !.runs[o][i].done = TRUE]
     ELSE [Invoked(st, o) EXCEPT
             !.runs[o][i] = [left |-> OneLess(r.left), delay |-> grown,
                             done |-> r.left = 1]]

\* pause that forgets the stop request.
OstinatoPauseWithoutStop(st, o) == PlayerPause(st, o)

\* play that forgets to start the repetition.
OstinatoPlayWithoutStart(st, o) ==
  PlayerPlay([st EXCEPT !.stopped[o] = FALSE], o)

OstinatoPlay(st, o) ==
  PlayerPlay(what([st EXCEPT !.stopped[o] = FALSE], o), o)

OstinatoPause(st, o) ==
  PlayerPause([st EXCEPT !.stopped[o] = TRUE], o)

\* ---------------------------------------------------------------- Ensemble: play, pause
RECURSIVE Play(_, _, _)
RECURSIVE Pause(_, _, _)
RECURSIVE PlayEach(_, _, _, _)
RECURSIVE PauseEach(_, _, _, _)

\* Records that `by` is about to call obj.method().
Invoke(st, by, obj, method) ==
  [st EXCEPT !.invoked = Append(@, [by |-> by, obj |-> obj, method |-> method])]

\* for (const player of this.players.values()) if (!player.playing) player.play()
PlayEach(st, e, i, depth) ==
  IF st.threw # None \/ i > Len(st.players[e]) THEN st
  ELSE LET player == st.players[e][i].val
       IN PlayEach(IF ~st.playing[player]
                   THEN Play(Invoke(st, e, player, "play"), player, depth + 1)
                   ELSE st,
                   e, i + 1, depth)

PauseEach(st, e, i, depth) ==
  IF st.threw # None \/ i > Len(st.players[e]) THEN st
  ELSE LET player == st.players[e][i].val
       IN PauseEach(IF st.playing[player]
                    THEN Pause(Invoke(st, e, player, "pause"), player, depth + 1)
                    ELSE st,
                    e, i + 1, depth)

EnsemblePlay(st, e, depth) ==
  IF st.playing[e] THEN st
  ELSE let(PlayEach(st, e, 1, depth), e, "playing", TRUE)

EnsemblePause(st, e, depth) ==
  IF ~st.playing[e] THEN st
  ELSE let(PauseEach(st, e, 1, depth), e, "playing", FALSE)

\* ---------------------------------------------------------------- EmitterSecondo
\* An EmitterSecondo and the events it is configured with; cue i of the frozen
\* array _cues listens for event i of the primo.
Secondos == {"S1"}
SecondoEvents == <<"foo", "bar">>
SecondoCues == <<"K1", "K2">>
\* The three Ensembles the Solo constructor adds to the secondo.
SoloParts == <<[key |-> "cues", val |-> "E1"], [key |-> "ostinatos", val |-> "E2"],
               [key |-> "tickets", val |-> "E3"]>>

\* this.cues.forEach(cue => cue.play())
RECURSIVE PlayCues(_, _)
PlayCues(st, i) ==
  IF st.threw # None \/ i > Len(SecondoCues) THEN st
  ELSE PlayCues(CuePlay(st, SecondoCues[i]), i + 1)

\* this.cues.forEach(cue => cue.pause())
RECURSIVE PauseCues(_, _)
PauseCues(st, i) ==
  IF st.threw # None \/ i > Len(SecondoCues) THEN st
  ELSE PauseCues(CuePause(st, SecondoCues[i]), i + 1)

\* The play() of the earlier version: one Cue.addListener per event whether or
\* not the secondo already plays, then this.playing = true.
RECURSIVE AttachEach(_, _)
AttachEach(st, i) ==
  IF st.threw # None \/ i > Len(SecondoCues) THEN st
  ELSE AttachEach(addListener(st, BoundListener(SecondoCues[i])), i + 1)

EmitterSecondoPlayUnguarded(st, s, depth) ==
  LET s1 == AttachEach(st, 1)
  IN IF s1.threw # None THEN s1 ELSE [PlayerPlay(s1, s) EXCEPT !.ret = s]

\* play(): if (this.playing) return this; every cue plays; super.play().
EmitterSecondoPlay(st, s, depth) ==
  IF st.threw # None THEN st
  ELSE IF st.playing[s] THEN [st EXCEPT !.ret = s]
  ELSE LET s1 == EnsemblePlay(PlayCues(st, 1), s, depth)
       IN IF s1.threw # None THEN s1 ELSE [s1 EXCEPT !.ret = s]

\* pause(): if (!this.playing) return this; every cue pauses; super.pause().
EmitterSecondoPause(st, s, depth) ==
  IF st.threw # None THEN st
  ELSE IF ~st.playing[s] THEN [st EXCEPT !.ret = s]
  ELSE LET s1 == EnsemblePause(PauseCues(st, 1), s, depth)
       IN IF s1.threw # None THEN s1 ELSE [s1 EXCEPT !.ret = s]

\* propagate(event, ...args): this.emit(event, ...args, this)
propagate(st, s, ev, arg) == emit(st, s, UserType(ev), <<arg, s>>, 1)

\* The primo fires ev: the listeners it holds for ev when the firing starts are
\* called in order; each is a propagate bound to ev.
RECURSIVE primoEmit(_, _, _, _, _)
primoEmit(st, snapshot, i, ev, arg) ==
  IF st.threw # None \/ i > Len(snapshot) THEN st
  ELSE primoEmit(IF st.event[snapshot[i].owner] = ev
                 THEN propagate(st, "S1", ev, arg) ELSE st,
                 snapshot, i + 1, ev, arg)

\* p.play(), dispatched on the class of p.
Play(st, p, depth) ==
  IF st.threw # None THEN st
  ELSE IF depth > StackLimit THEN Throw(st, "RangeError")
  ELSE CASE p \in Ensembles -> EnsemblePlay(st, p, depth)
         [] p \in Cues -> CuePlay(st, p)
         [] p \in Ostinatos -> OstinatoPlay(st, p)
         [] OTHER -> PlayerPlay(st, p)

Pause(st, p, depth) ==
  IF st.threw # None THEN st
  ELSE IF depth > StackLimit THEN Throw(st, "RangeError")
  ELSE CASE p \in Ensembles -> EnsemblePause(st, p, depth)
         [] p \in Cues -> CuePause(st, p)
         [] p \in Ostinatos -> OstinatoPause(st, p)
         [] OTHER -> PlayerPause(st, p)

\* ---------------------------------------------------------------- Ensemble: membership
has(st, e, k) == MapHas(st.players[e], k)

\* lastOp is bookkeeping for the membership property: add and remove note, on
\* entry, that they were called for the name; no method reads it.
Called(st, e, k, op) == [st EXCEPT !.lastOp[e][k] = op]

\* add without the duplicate test: Map.set replaces the entry in place.
addOverwrites(st, e, k, player) ==
  IF st.threw # None THEN st
  ELSE
    LET s1 == [Called(st, e, k, "add") EXCEPT !.players[e] = MapSet(@, k, player)]
        s2 == let(s1, player, "name", k)
        s3 == let(s2, player, "ensemble", e)
    IN IF s3.threw # None THEN s3 ELSE [s3 EXCEPT !.ret = e]

\* add that sets the name and forgets the ensemble back-reference.
addWithoutEnsemble(st, e, k, player) ==
  IF st.threw # None THEN st
  ELSE IF has(st, e, k) THEN Throw(Called(st, e, k, "add"), "DuplicateName")
  ELSE
    LET s1 == [Called(st, e, k, "add") EXCEPT !.players[e] = MapSet(@, k, player)]
        s2 == let(s1, player, "name", k)
    IN IF s2.threw # None THEN s2 ELSE [s2 EXCEPT !.ret = e]

\* add that starts the player when the Ensemble is playing.
addStartsPlayer(st, e, k, player) ==
  IF st.threw # None THEN st
  ELSE IF has(st, e, k) THEN Throw(Called(st, e, k, "add"), "DuplicateName")
  ELSE
    LET s1 == [Called(st, e, k, "add") EXCEPT !.players[e] = MapSet(@, k, player)]
        s2 == let(s1, player, "name", k)
        s3 == let(s2, player, "ensemble", e)
        s4 == IF s3.playing[e] /\ ~s3.playing[player]
              THEN Play(Invoke(s3, e, player, "play"), player, 1) ELSE s3
    IN IF s4.threw # None THEN s4 ELSE [s4 EXCEPT !.ret = e]

add(st, e, k, player) ==
  IF st.threw # None THEN st
  ELSE IF has(st, e, k) THEN Throw(Called(st, e, k, "add"), "DuplicateName")
  ELSE
    LET s1 == [Called(st, e, k, "add") EXCEPT !.players[e] = MapSet(@, k, player)]
        s2 == let(s1, player, "name", k)
        s3 == let(s2, player, "ensemble", e)
    IN IF s3.threw # None THEN s3 ELSE [s3 EXCEPT !.ret = e]

\* new Ensemble(): the next object of the pool, in its constructed state.
NewEnsemble(st) == Head(st.fresh)

get(st, e, k, creating) ==
  IF st.threw # None THEN st
  ELSE
    LET got == MapGet(st.players[e], k)
    IN IF got = Undef /\ creating
       THEN LET made == NewEnsemble(st)
                s1 == [st EXCEPT !.fresh = Tail(@)]
                s2 == IF s1.playing[e] THEN Play(s1, made, 1) ELSE s1
                s3 == add(s2, e, k, made)
            IN IF s3.threw # None THEN s3 ELSE [s3 EXCEPT !.ret = made]
       ELSE [st EXCEPT !.ret = got]

\* remove that clears the back-references and forgets players.delete(name).
removeKeepsEntry(st, e, k) ==
  IF st.threw # None THEN st
  ELSE
    LET player == MapGet(st.players[e], k)
    IN IF player = Undef
       THEN [Called(st, e, k, "remove") EXCEPT !.ret = "false"]
       ELSE LET s1 == let(Called(st, e, k, "remove"), player, "ensemble", Undef)
                s2 == let(s1, player, "name", Undef)
            IN IF s2.threw # None THEN s2 ELSE [s2 EXCEPT !.ret = "true"]

\* remove that pauses the player it detaches.
removePauses(st, e, k) ==
  IF st.threw # None THEN st
  ELSE
    LET player == MapGet(st.players[e], k)
    IN IF player = Undef
       THEN [Called(st, e, k, "remove") EXCEPT !.ret = "false"]
       ELSE LET s0 == Pause(Called(st, e, k, "remove"), player, 1)
                s1 == let(s0, player, "ensemble", Undef)
                s2 == let(s1, player, "name", Undef)
            IN IF s2.threw # None THEN s2
               ELSE [s2 EXCEPT !.players[e] = MapDelete(@, k), !.ret = "true"]

remove(st, e, k) ==
  IF st.threw # None THEN st
  ELSE
    LET player == MapGet(st.players[e], k)
    IN IF player = Undef
       THEN [Called(st, e, k, "remove") EXCEPT !.ret = "false"]
       ELSE LET s1 == let(Called(st, e, k, "remove"), player, "ensemble", Undef)
                s2 == let(s1, player, "name", Undef)
            IN IF s2.threw # None THEN s2
               ELSE [s2 EXCEPT !.players[e] = MapDelete(@, k), !.ret = "true"]

\* !name
Falsy(k) == k = Undef \/ k = ""

\* rotate(name): k is "undefined" when the argument is omitted.
rotate(st, e, k) ==
  IF st.threw # None THEN st
  ELSE
    LET m == st.players[e]
        k1 == IF Falsy(k) /\ Len(m) > 0 THEN st.name[m[1].val] ELSE k
        got == IF k1 = Undef THEN Undef ELSE MapGet(m, k1)
    IN IF got # Undef
       THEN LET s1 == remove(st, e, k1)
                s2 == add(s1, e, k1, got)
            IN IF s2.threw # None THEN s2 ELSE [s2 EXCEPT !.ret = got]
       ELSE [st EXCEPT !.ret = got]

\* ---------------------------------------------------------------- Ensemble: sort
NameRank(k) ==
  CASE k = "a" -> 1 [] k = "b" -> 2 [] k = "x" -> 3 [] k = "y" -> 4 [] k = "z" -> 5
    [] OTHER -> 0

\* The entry comparators tried: by name (localeCompare), and by name reversed.
Comparators == {"asc", "desc"}

Compare(cmp, x, y) ==
  CASE cmp = "asc" -> NameRank(x.key) - NameRank(y.key)
    [] cmp = "desc" -> NameRank(y.key) - NameRank(x.key)
    [] OTHER -> 0

\* Array.prototype.sort is stable: x goes after every entry that is not greater.
RECURSIVE InsertSorted(_, _, _)
InsertSorted(cmp, sorted, x) ==
  IF sorted = <<>> THEN <<x>>
  ELSE IF Compare(cmp, sorted[Len(sorted)], x) <= 0 THEN Append(sorted, x)
  ELSE Append(InsertSorted(cmp, SubSeq(sorted, 1, Len(sorted) - 1), x),
              sorted[Len(sorted)])

RECURSIVE ArraySort(_, _)
ArraySort(cmp, arr) ==
  IF arr = <<>> THEN <<>>
  ELSE InsertSorted(cmp, ArraySort(cmp, SubSeq(arr, 1, Len(arr) - 1)), arr[Len(arr)])

Min(a, b) == IF a < b THEN a ELSE b

RECURSIVE MarkTrimmed(_, _, _)
MarkTrimmed(ops, trimmed, i) ==
  IF i > Len(trimmed) THEN ops
  ELSE MarkTrimmed([ops EXCEPT ![trimmed[i].key] = "trim"], trimmed, i + 1)

\* sort that trims the entries in their insertion order, without sorting them.
sortKeepsOrder(st, e, cmp, limit) ==
  IF st.threw # None THEN st
  ELSE
    LET sorted == st.players[e]
        cut == IF limit = <<>> THEN Len(sorted) ELSE Min(limit[1], Len(sorted))
        trimmed == SubSeq(sorted, cut + 1, Len(sorted))
        kept == SubSeq(sorted, 1, cut)
    IN [st EXCEPT !.players[e] = kept,
                  !.lastOp[e] = MarkTrimmed(@, trimmed, 1),
                  !.ret = trimmed]

\* The trimmed players lose their back-references, as remove() would do.
RECURSIVE detachAll(_, _, _)
detachAll(st, trimmed, i) ==
  IF i > Len(trimmed) THEN st
  ELSE detachAll(let(let(st, trimmed[i].val, "ensemble", Undef),
                     trimmed[i].val, "name", Undef), trimmed, i + 1)

\* sort that detaches the entries it discards.
sortDetachesTrimmed(st, e, cmp, limit) ==
  IF st.threw # None THEN st
  ELSE
    LET sorted == ArraySort(cmp, st.players[e])
        cut == IF limit = <<>> THEN Len(sorted) ELSE Min(limit[1], Len(sorted))
        trimmed == SubSeq(sorted, cut + 1, Len(sorted))
        kept == SubSeq(sorted, 1, cut)
    IN [detachAll(st, trimmed, 1) EXCEPT !.players[e] = kept,
                  !.lastOp[e] = MarkTrimmed(@, trimmed, 1),
                  !.ret = trimmed]

\* sort(entryComparator, limit): limit is <<>> when omitted, else <<n>>.
sort(st, e, cmp, limit) ==
  IF st.threw # None THEN st
  ELSE
    LET sorted == ArraySort(cmp, st.players[e])
        cut == IF limit = <<>> THEN Len(sorted) ELSE Min(limit[1], Len(sorted))
        trimmed == SubSeq(sorted, cut + 1, Len(sorted))
        kept == SubSeq(sorted, 1, cut)
    IN [st EXCEPT !.players[e] = kept,
                  !.lastOp[e] = MarkTrimmed(@, trimmed, 1),
                  !.ret = trimmed]

\* ---------------------------------------------------------------- Ensemble: descendants
\* The array a call of descendants returns, or Overflow when the recursion
\* does not end (an Ensemble below itself) and the stack is exhausted.
Overflow == <<"RangeError">>

\* for (const player of this.players.values()) ..., from entry i on.
RECURSIVE list(_, _, _, _, _)
list(st, e, ensembles, i, depth) ==
  IF depth > StackLimit THEN Overflow
  ELSE IF i > Len(st.players[e]) THEN <<>>
  ELSE LET player == st.players[e][i].val
           below == IF player \in Ensembles
                    THEN list(st, player, ensembles, 1, depth + 1)
                    ELSE <<>>
           rest == list(st, e, ensembles, i + 1, depth)
           mine == IF player \in Ensembles
                   THEN (IF ensembles THEN <<player>> ELSE <<>>) \o below
                   ELSE <<player>>
       IN IF below = Overflow \/ rest = Overflow THEN Overflow ELSE mine \o rest

descendants(st, e, ensembles) ==
  IF st.threw # None THEN st
  ELSE LET got == list(st, e, ensembles, 1, 1)
       IN IF got = Overflow THEN Throw(st, "RangeError") ELSE [st EXCEPT !.ret = got]

\* ---------------------------------------------------------------- the state machine
Constructed == Objects \ {fresh[i] : i \in 1..Len(fresh)}

\* One call from outside has run to its end (normally or by an exception).
Commit(st, op, self, key, arg) ==
  /\ playing' = st.playing
  /\ name' = st.name
  /\ ensemble' = st.ensemble
  /\ players' = st.players
  /\ attached' = st.attached
  /\ registered' = st.registered
  /\ stopped' = st.stopped
  /\ fresh' = st.fresh
  /\ lastOp' = st.lastOp
  /\ call' = [op |-> op, self |-> self, key |-> key, arg |-> arg,
              ret |-> st.ret, threw |-> st.threw]
  /\ log' = st.log
  /\ invoked' = st.invoked
  /\ clean' = (clean /\ st.threw # "RangeError")
  /\ steps' = steps + 1
  /\ listeners' = st.listeners
  /\ heard' = st.heard
  /\ promise' = st.promise
  /\ config' = st.config
  /\ runs' = st.runs
  /\ invocations' = st.invocations
  /\ methods' = st.methods
  /\ prepend' = st.prepend
  /\ dom' = st.dom
  /\ event' = st.event

\* new Player(name), new Ensemble(), new Cue(...), new Ostinato(...)
Init ==
  /\ playing = [p \in Objects |-> FALSE]
  /\ name \in {f \in [Objects -> ConstructorNames] :
                 \A p \in Objects \ BasePlayers : f[p] = Undef}
  /\ ensemble = [p \in Objects |-> Undef]
  /\ players = [e \in Ensembles |-> <<>>]
  /\ attached = [c \in Cues |-> FALSE]
  /\ registered = <<>>
  /\ stopped = [o \in Ostinatos |-> FALSE]
  /\ fresh = <<"E2", "E3">>
  /\ lastOp = [e \in Ensembles |-> [k \in Names |-> None]]
  /\ call = [op |-> None, self |-> Undef, key |-> Undef, arg |-> Undef,
             ret |-> Undef, threw |-> None]
  /\ log = <<>>
  /\ invoked = <<>>
  /\ clean = TRUE
  /\ steps = 0
  /\ listeners = [p \in Objects |-> <<>>]
  /\ heard = <<>>
  /\ promise = [n \in PromiseIds |-> Unborn]
  /\ config = [o \in Ostinatos |-> DefaultConfig]
  /\ runs = [o \in Ostinatos |-> <<>>]
  /\ invocations = [o \in Ostinatos |-> 0]
  /\ NodeEmitter

\* new Ensemble(), called by the client.
Construct ==
  /\ steps < MaxOps
  /\ fresh # <<>>
  /\ Commit([Cur EXCEPT !.fresh = Tail(@), !.ret = Head(fresh)],
            "new", Undef, Undef, Undef)

Add(e, k, p) ==
  /\ steps < MaxOps
  /\ e \in Constructed /\ p \in Constructed
  /\ Commit(add(Cur, e, k, p), "add", e, k, p)

Get(e, k, creating) ==
  /\ steps < MaxOps
  /\ e \in Constructed
  /\ (creating /\ ~MapHas(players[e], k)) => fresh # <<>>
  /\ Commit(get(Cur, e, k, creating), "get", e, k, creating)

Remove(e, k) ==
  /\ steps < MaxOps
  /\ e \in Constructed
  /\ Commit(remove(Cur, e, k), "remove", e, k, MapGet(players[e], k))

Rotate(e, k) ==
  /\ steps < MaxOps
  /\ e \in Constructed
  /\ Commit(rotate(Cur, e, k), "rotate", e, k, Undef)

Sort(e, cmp, limit) ==
  /\ steps < MaxOps
  /\ e \in Constructed
  /\ Commit(sort(Cur, e, cmp, limit), "sort", e, cmp, limit)

DoPlay(p) ==
  /\ steps < MaxOps
  /\ p \in Constructed
  /\ Commit(Play(Cur, p, 1), "play", p, Undef, Undef)

DoPause(p) ==
  /\ steps < MaxOps
  /\ p \in Constructed
  /\ Commit(Pause(Cur, p, 1), "pause", p, Undef, Undef)

Emit(p, t) ==
  /\ steps < MaxOps
  /\ p \in Constructed
  /\ Commit(emit(Cur, p, UserType(t), <<"x">>, 1), "emit", p, t, Undef)

Limits == {<<>>, <<0>>, <<1>>}

Next ==
  \/ Construct
  \/ \E e \in Ensembles, k \in Names, p \in Objects : Add(e, k, p)
  \/ \E e \in Ensembles, k \in Names, creating \in BOOLEAN : Get(e, k, creating)
  \/ \E e \in Ensembles, k \in Names : Remove(e, k)
  \/ \E e \in Ensembles, k \in Names \cup {Undef} : Rotate(e, k)
  \/ \E e \in Ensembles, cmp \in Comparators, limit \in Limits : Sort(e, cmp, limit)
  \/ \E p \in Objects : DoPlay(p)
  \/ \E p \in Objects : DoPause(p)
  \/ \E p \in Objects, t \in EventTypes : Emit(p, t)

Spec == Init /\ [][Next]_vars

\* ---------------------------------------------------------------- listeners and emit
ListenerIds == {"l1", "l2"}

\* The objects as their constructors leave them, as a machine state.
StartState ==
  [playing |-> [p \in Objects |-> FALSE], name |-> [p \in Objects |-> Undef],
   ensemble |-> [p \in Objects |-> Undef], players |-> [e \in Ensembles |-> <<>>],
   attached |-> [c \in Cues |-> FALSE], registered |-> <<>>,
   stopped |-> [o \in Ostinatos |-> FALSE], fresh |-> <<"E2", "E3">>,
   lastOp |-> [e \in Ensembles |-> [k \in Names |-> None]],
   listeners |-> [p \in Objects |-> <<>>], heard |-> <<>>, tick |-> 0,
   promise |-> [n \in PromiseIds |-> Unborn],
   config |-> [o \in Ostinatos |-> DefaultConfig],
   runs |-> [o \in Ostinatos |-> <<>>], invocations |-> [o \in Ostinatos |-> 0],
   methods |-> NodeMethods, prepend |-> FALSE, dom |-> <<>>,
   event |-> [c \in Cues |-> "event"],
   log |-> <<>>, invoked |-> <<>>, threw |-> None, ret |-> Undef]

\* E1.add('a', P1)
OneLevel == add(StartState, "E1", "a", "P1")

\* E1.add('a', P1); E2 = new Ensemble(); E2.add('b', E1)
TwoLevels == add([OneLevel EXCEPT !.fresh = Tail(@)], "E2", "b", "E1")

Trees == {StartState, OneLevel, TwoLevels}

InitEmit ==
  \E t \in Trees :
    /\ playing = t.playing /\ name = t.name /\ ensemble = t.ensemble
    /\ players = t.players /\ attached = t.attached /\ registered = t.registered
    /\ stopped = t.stopped /\ fresh = t.fresh /\ lastOp = t.lastOp
    /\ call = [op |-> None, self |-> Undef, key |-> Undef, arg |-> Undef,
               ret |-> Undef, threw |-> None]
    /\ log = <<>> /\ invoked = <<>> /\ clean = TRUE /\ steps = 0
    /\ listeners = [p \in Objects |-> <<>>] /\ heard = <<>>
    /\ promise = [n \in PromiseIds |-> Unborn]
    /\ config = [o \in Ostinatos |-> DefaultConfig]
    /\ runs = [o \in Ostinatos |-> <<>>]
    /\ invocations = [o \in Ostinatos |-> 0]
    /\ NodeEmitter

\* p.on(type, listener): EventEmitter appends the listener.
on(st, p, key, id) ==
  [st EXCEPT !.listeners[p] = Append(@, [key |-> key, id |-> id]), !.ret = p]

On(p, t, id) ==
  /\ steps < MaxEmitOps
  /\ p \in Constructed
  /\ Len(listeners[p]) < MaxListeners
  /\ Commit(on(Cur, p, t, id), "on", p, t, id)

EmitCall(p, t) ==
  /\ steps < MaxEmitOps
  /\ p \in Constructed
  /\ Commit(emit(Cur, p, UserType(t), <<"x">>, 1), "emit", p, t, Undef)

Emitters == {"P1", "E1", "E2"}

NextEmit ==
  \/ \E p \in Emitters, t \in EventTypes, id \in ListenerIds : On(p, t, id)
  \/ \E p \in Emitters, t \in EventTypes : EmitCall(p, t)

SpecEmit == InitEmit /\ [][NextEmit]_vars

\* ---------------------------------------------------------------- Cue.promise, step by step
\* One step is one turn of the event loop: a call made by the client, a firing
\* of the external emitter, or the expiry of a timer.
Firings == {"x", "empty", "skip", "boom"}
Timeouts == {0, 200}
Predicates == {"defined", "truthy"}

NextPromiseId == IF promise["h1"].state = "unborn" THEN "h1" ELSE "h2"

InitPromise ==
  /\ Init
  /\ name = [p \in Objects |-> Undef]

CallPromise(c, timeoutMillis, pred) ==
  /\ steps < MaxPromiseOps
  /\ \E n \in PromiseIds : promise[n].state = "unborn"
  /\ Commit(promiseOf(Cur, c, NextPromiseId, timeoutMillis, pred),
            "promise", c, NextPromiseId, pred)

Fire(c, arg) ==
  /\ steps < MaxPromiseOps
  /\ Commit(emitterEmit(Cur, registered, 1, arg), "fire", c, arg, Undef)

\* The timer of promise n expires: the event loop runs its callback.
TimerExpire(c, n) ==
  /\ promise[n].timer = "armed"
  /\ Commit(timeoutCallback(Cur, c, n), "timeout", c, n, Undef)

PlayCue(c) ==
  /\ steps < MaxPromiseOps
  /\ Commit(Play(Cur, c, 1), "play", c, Undef, Undef)

PauseCue(c) ==
  /\ steps < MaxPromiseOps
  /\ Commit(Pause(Cur, c, 1), "pause", c, Undef, Undef)

NextPromise ==
  \/ \E c \in Cues, t \in Timeouts, pred \in Predicates : CallPromise(c, t, pred)
  \/ \E c \in Cues, arg \in Firings : Fire(c, arg)
  \/ \E c \in Cues, n \in PromiseIds : TimerExpire(c, n)
  \/ \E c \in Cues : PlayCue(c)
  \/ \E c \in Cues : PauseCue(c)

SpecPromise == InitPromise /\ [][NextPromise]_vars

\* The same turns with the default predicate, for the behaviours in which
\* time goes on: a timer that is armed and not cleared does expire.
NextTimeout ==
  \/ \E c \in Cues, t \in Timeouts : steps < MaxTimeoutOps /\ CallPromise(c, t, "defined")
  \/ \E c \in Cues, arg \in Firings \ {"empty"} : steps < MaxTimeoutOps /\ Fire(c, arg)
  \/ \E c \in Cues, n \in PromiseIds : TimerExpire(c, n)
  \/ \E c \in Cues : steps < MaxTimeoutOps /\ PlayCue(c)

TimerExpires == \E c \in Cues, n \in PromiseIds : TimerExpire(c, n)

SpecPromiseFair == InitPromise /\ [][NextTimeout]_vars /\ WF_vars(TimerExpires)

\* ---------------------------------------------------------------- Ostinato, step by step
\* One step is a call of play() or pause(), or the end of one wait.
Configs ==
  {[nTimes |-> n, baseDelay |-> b, factor |-> f, maxDelay |-> m] :
     n \in {1, 2, 3, Infinity}, b \in {10, 20}, f \in {1, 2}, m \in {15, Infinity}}

InitOstinato ==
  /\ playing = [p \in Objects |-> FALSE]
  /\ name = [p \in Objects |-> Undef]
  /\ ensemble = [p \in Objects |-> Undef]
  /\ players = [e \in Ensembles |-> <<>>]
  /\ attached = [c \in Cues |-> FALSE]
  /\ registered = <<>>
  /\ stopped = [o \in Ostinatos |-> FALSE]
  /\ fresh = <<"E2", "E3">>
  /\ lastOp = [e \in Ensembles |-> [k \in Names |-> None]]
  /\ call = [op |-> None, self |-> Undef, key |-> Undef, arg |-> Undef,
             ret |-> Undef, threw |-> None]
  /\ log = <<>> /\ invoked = <<>> /\ clean = TRUE /\ steps = 0
  /\ listeners = [p \in Objects |-> <<>>] /\ heard = <<>>
  /\ promise = [n \in PromiseIds |-> Unborn]
  /\ config \in [Ostinatos -> Configs]
  /\ runs = [o \in Ostinatos |-> <<>>]
  /\ invocations = [o \in Ostinatos |-> 0]
  /\ NodeEmitter

PlayOstinato(o) ==
  /\ steps < MaxOstinatoOps
  /\ Commit(Play(Cur, o, 1), "play", o, Undef, Undef)

PauseOstinato(o) ==
  /\ steps < MaxOstinatoOps
  /\ Commit(Pause(Cur, o, 1), "pause", o, Undef, Undef)

\* The wait of repetition i of o is over. A repetition with a finite count
\* always gets its turn; an unbounded one is followed for MaxOstinatoOps steps.
Elapse(o, i) ==
  /\ i \in 1..Len(runs[o])
  /\ ~runs[o][i].done
  /\ config[o].nTimes < Infinity \/ steps < MaxOstinatoOps
  /\ Commit(elapse(Cur, o, i), "elapse", o, Undef, Undef)

NextOstinato ==
  \/ \E o \in Ostinatos : PlayOstinato(o)
  \/ \E o \in Ostinatos : PauseOstinato(o)
  \/ \E o \in Ostinatos, i \in 1..MaxOstinatoOps : Elapse(o, i)

SpecOstinato == InitOstinato /\ [][NextOstinato]_vars

\* Time goes on: a wait that has started comes to its end.
Elapses == \E o \in Ostinatos, i \in 1..MaxOstinatoOps : Elapse(o, i)

SpecOstinatoFair == SpecOstinato /\ WF_vars(Elapses)

\* ---------------------------------------------------------------- sort on its own
\* The Ensemble of the sort test: entries added under 'z', 'x', 'y' in any order
\* (EmitterSecondo.test.js:282-296), then sorted with and without a limit.
SortNames == {"x", "y", "z"}

PlayerOf(k) == CASE k = "x" -> "P1" [] k = "y" -> "Q1" [] OTHER -> "O1"

SortLimits == {<<>>, <<0>>, <<1>>, <<2>>, <<3>>, <<4>>}

SortStart == [StartState EXCEPT !.lastOp = [e \in Ensembles |-> [k \in SortNames |-> None]]]

\* e.add(keys[i], PlayerOf(keys[i])) for i, i + 1, ...
RECURSIVE AddAll(_, _, _, _)
AddAll(st, e, keys, i) ==
  IF i > Len(keys) THEN st
  ELSE AddAll(add(st, e, keys[i], PlayerOf(keys[i])), e, keys, i + 1)

KeyOrders ==
  {ks \in UNION {[1..n -> SortNames] : n \in 0..3} :
     \A i, j \in DOMAIN ks : i # j => ks[i] # ks[j]}

InitSort ==
  \E ks \in KeyOrders :
    LET t == AddAll(SortStart, "E1", ks, 1) IN
    /\ playing = t.playing /\ name = t.name /\ ensemble = t.ensemble
    /\ players = t.players /\ attached = t.attached /\ registered = t.registered
    /\ stopped = t.stopped /\ fresh = t.fresh /\ lastOp = t.lastOp
    /\ call = [op |-> None, self |-> Undef, key |-> Undef, arg |-> Undef,
               ret |-> Undef, threw |-> None]
    /\ log = <<>> /\ invoked = <<>> /\ clean = TRUE /\ steps = 0
    /\ listeners = [p \in Objects |-> <<>>] /\ heard = <<>>
    /\ promise = [n \in PromiseIds |-> Unborn]
    /\ config = [o \in Ostinatos |-> DefaultConfig]
    /\ runs = [o \in Ostinatos |-> <<>>]
    /\ invocations = [o \in Ostinatos |-> 0]
    /\ NodeEmitter

SortCall(e, cmp, limit) ==
  /\ steps < MaxSortOps
  /\ Commit(sort(Cur, e, cmp, limit), "sort", e, cmp, limit)

NextSort == \E cmp \in Comparators, limit \in SortLimits : SortCall("E1", cmp, limit)

SpecSort == InitSort /\ [][NextSort]_vars

\* ---------------------------------------------------------------- let on its own
\* Listeners wait for the change event under the type PropertyChangeEvent gives
\* itself ('propertychange'), or under the key an object coerces to.
ChangeKeys == {"propertychange", "[object Object]"}

OnChange(p, key, id) ==
  /\ steps < MaxLetOps
  /\ Len(listeners[p]) < MaxListeners
  /\ Commit(on(Cur, p, key, id), "on", p, key, id)

\* p.let('playing', value)
LetCall(p, value) ==
  /\ steps < MaxLetOps
  /\ Commit(let(Cur, p, "playing", value), "let", p, "playing", value)

NextLet ==
  \/ \E p \in Emitters, key \in ChangeKeys, id \in ListenerIds : OnChange(p, key, id)
  \/ \E p \in Emitters, value \in BOOLEAN : LetCall(p, value)

SpecLet == InitEmit /\ [][NextLet]_vars

\* ---------------------------------------------------------------- a Cue on any emitter
\* The emitter exposes any combination of the recognised methods, and the Cue
\* is constructed with or without opts.prepend.
InitCue ==
  /\ playing = [p \in Objects |-> FALSE]
  /\ name = [p \in Objects |-> Undef]
  /\ ensemble = [p \in Objects |-> Undef]
  /\ players = [e \in Ensembles |-> <<>>]
  /\ attached = [c \in Cues |-> FALSE]
  /\ registered = <<>>
  /\ stopped = [o \in Ostinatos |-> FALSE]
  /\ fresh = <<"E2", "E3">>
  /\ lastOp = [e \in Ensembles |-> [k \in Names |-> None]]
  /\ call = [op |-> None, self |-> Undef, key |-> Undef, arg |-> Undef,
             ret |-> Undef, threw |-> None]
  /\ log = <<>> /\ invoked = <<>> /\ clean = TRUE /\ steps = 0
  /\ listeners = [p \in Objects |-> <<>>] /\ heard = <<>>
  /\ promise = [n \in PromiseIds |-> Unborn]
  /\ config = [o \in Ostinatos |-> DefaultConfig]
  /\ runs = [o \in Ostinatos |-> <<>>]
  /\ invocations = [o \in Ostinatos |-> 0]
  /\ methods \in SUBSET (AttachMethods \cup DetachMethods)
  /\ prepend \in BOOLEAN
  /\ dom = <<>>
  /\ event = [c \in Cues |-> Undef]

ConstructCue(c, ev, listener) ==
  /\ steps < MaxCueOps
  /\ event[c] = Undef
  /\ Commit(CueConstructor(Cur, c, ev, listener), "new", c, ev, listener)

PlayTheCue(c) ==
  /\ steps < MaxCueOps
  /\ event[c] # Undef
  /\ Commit(Play(Cur, c, 1), "play", c, Undef, Undef)

PauseTheCue(c) ==
  /\ steps < MaxCueOps
  /\ event[c] # Undef
  /\ Commit(Pause(Cur, c, 1), "pause", c, Undef, Undef)

NextCue ==
  \/ \E c \in Cues, ev \in EventArgs, listener \in ListenerArgs : ConstructCue(c, ev, listener)
  \/ \E c \in Cues : PlayTheCue(c)
  \/ \E c \in Cues : PauseTheCue(c)

SpecCue == InitCue /\ [][NextCue]_vars

\* ---------------------------------------------------------------- trees of Ensembles
\* Three Ensembles and three other Players, all constructed; add builds the
\* trees, descendants and emit walk them.
InitTree ==
  /\ playing = [p \in Objects |-> FALSE]
  /\ name = [p \in Objects |-> Undef]
  /\ ensemble = [p \in Objects |-> Undef]
  /\ players = [e \in Ensembles |-> <<>>]
  /\ attached = [c \in Cues |-> FALSE]
  /\ registered = <<>>
  /\ stopped = [o \in Ostinatos |-> FALSE]
  /\ fresh = <<>>
  /\ lastOp = [e \in Ensembles |-> [k \in Names |-> None]]
  /\ call = [op |-> None, self |-> Undef, key |-> Undef, arg |-> Undef,
             ret |-> Undef, threw |-> None]
  /\ log = <<>> /\ invoked = <<>> /\ clean = TRUE /\ steps = 0
  /\ listeners = [p \in Objects |-> <<>>] /\ heard = <<>>
  /\ promise = [n \in PromiseIds |-> Unborn]
  /\ config = [o \in Ostinatos |-> DefaultConfig]
  /\ runs = [o \in Ostinatos |-> <<>>]
  /\ invocations = [o \in Ostinatos |-> 0]
  /\ NodeEmitter

TreeAdd(e, k, player) ==
  /\ steps < MaxTreeOps - 1
  /\ Commit(add(Cur, e, k, player), "add", e, k, player)

TreeDescendants(e, ensembles) ==
  /\ steps < MaxTreeOps
  /\ Commit(descendants(Cur, e, ensembles), "descendants", e, Undef, ensembles)

NextTree ==
  \/ \E e \in Ensembles, k \in Names, player \in Objects : TreeAdd(e, k, player)
  \/ \E e \in Ensembles, ensembles \in BOOLEAN : TreeDescendants(e, ensembles)

SpecTree == InitTree /\ [][NextTree]_vars

\* ---------------------------------------------------------------- discarding specification
\* On the trees of the emit specification, listeners are registered, entries
\* are discarded by sort or removed by remove, and Players emit.
MaxDiscardOps == 4

DiscardOn(p, t, id) ==
  /\ steps < MaxDiscardOps
  /\ Len(listeners[p]) < MaxListeners
  /\ Commit(on(Cur, p, t, id), "on", p, t, id)

DiscardSort(e, cmp, limit) ==
  /\ steps < MaxDiscardOps
  /\ Commit(sort(Cur, e, cmp, limit), "sort", e, cmp, limit)

\* e.remove(k) of a name e holds.
DiscardRemove(e, k) ==
  /\ steps < MaxDiscardOps
  /\ has(Cur, e, k)
  /\ Commit(remove(Cur, e, k), "remove", e, k, MapGet(players[e], k))

DiscardEmit(p, t) ==
  /\ steps < MaxDiscardOps
  /\ Commit(emit(Cur, p, UserType(t), <<"x">>, 1), "emit", p, t, Undef)

NextDiscard ==
  \/ \E p \in Emitters, t \in EventTypes, id \in ListenerIds : DiscardOn(p, t, id)
  \/ \E e \in Ensembles, cmp \in Comparators, limit \in Limits : DiscardSort(e, cmp, limit)
  \/ \E e \in Ensembles, k \in Names : DiscardRemove(e, k)
  \/ \E p \in Emitters, t \in EventTypes : DiscardEmit(p, t)

SpecDiscard == InitEmit /\ [][NextDiscard]_vars

\* ---------------------------------------------------------------- secondo specification
\* An EmitterSecondo configured with two events is played and paused in any
\* order while its primo fires the events. The primo exposes any of the methods
\* Cue recognises, as in the Cue specification.
MaxSecondoOps == 5

SecondoObjects == Objects \cup Secondos
SecondoCueSet == {SecondoCues[i] : i \in 1..Len(SecondoCues)}

\* new EmitterSecondo(primo, ['foo', 'bar']): the Solo constructor adds the
\* Ensembles cues, ostinatos and tickets; one detached Cue per event.
SecondoStart ==
  LET s0 == [StartState EXCEPT
               !.playing = [p \in SecondoObjects |-> FALSE],
               !.name = [p \in SecondoObjects |-> Undef],
               !.ensemble = [p \in SecondoObjects |-> Undef],
               !.listeners = [p \in SecondoObjects |-> <<>>],
               !.players = [e \in Ensembles \cup Secondos |-> <<>>],
               !.lastOp = [e \in Secondos |-> [k \in {"cues", "ostinatos", "tickets"} |-> None]],
               !.attached = [c \in SecondoCueSet |-> FALSE],
               !.event = [c \in SecondoCueSet |->
                            SecondoEvents[CHOOSE i \in 1..Len(SecondoCues) :
                                            SecondoCues[i] = c]],
               !.fresh = <<>>]
      s1 == add(s0, "S1", SoloParts[1].key, SoloParts[1].val)
      s2 == add(s1, "S1", SoloParts[2].key, SoloParts[2].val)
  IN add(s2, "S1", SoloParts[3].key, SoloParts[3].val)

InitSecondo ==
  /\ playing = SecondoStart.playing
  /\ name = SecondoStart.name
  /\ ensemble = SecondoStart.ensemble
  /\ players = SecondoStart.players
  /\ attached = SecondoStart.attached
  /\ registered = <<>>
  /\ stopped = SecondoStart.stopped
  /\ fresh = <<>>
  /\ lastOp = SecondoStart.lastOp
  /\ call = [op |-> "new", self |-> "S1", key |-> Undef, arg |-> Undef,
             ret |-> Undef, threw |-> None]
  /\ log = <<>>
  /\ invoked = <<>>
  /\ clean = TRUE
  /\ steps = 0
  /\ listeners = SecondoStart.listeners
  /\ heard = <<>>
  /\ promise = SecondoStart.promise
  /\ config = SecondoStart.config
  /\ runs = SecondoStart.runs
  /\ invocations = SecondoStart.invocations
  /\ methods \in SUBSET (AttachMethods \cup DetachMethods)
  /\ prepend \in BOOLEAN
  /\ dom = <<>>
  /\ event = SecondoStart.event

SecondoPlay(s) ==
  /\ steps < MaxSecondoOps
  /\ Commit(EmitterSecondoPlay(Cur, s, 1), "play", s, Undef, Undef)

SecondoPause(s) ==
  /\ steps < MaxSecondoOps
  /\ Commit(EmitterSecondoPause(Cur, s, 1), "pause", s, Undef, Undef)

\* The primo fires one of the configured events.
PrimoFires(ev, arg) ==
  /\ steps < MaxSecondoOps
  /\ Commit(primoEmit(Cur, dom \o registered, 1, ev, arg), "fire", "S1", ev, arg)

\* secondo.on(ev, listener)
OnSecondo(s, ev, id) ==
  /\ steps < MaxSecondoOps
  /\ Len(listeners[s]) < MaxListeners
  /\ Commit(on(Cur, s, ev, id), "on", s, ev, id)

NextSecondo ==
  \/ \E s \in Secondos, i \in 1..Len(SecondoEvents), id \in ListenerIds :
       OnSecondo(s, SecondoEvents[i], id)
  \/ \E s \in Secondos : SecondoPlay(s)
  \/ \E s \in Secondos : SecondoPause(s)
  \/ \E i \in 1..Len(SecondoEvents), arg \in {"v", "w"} : PrimoFires(SecondoEvents[i], arg)

SpecSecondo == InitSecondo /\ [][NextSecondo]_vars

\* ================================================================ properties
\* This call is a fresh call: every action counts it.
Called1 == steps' = steps + 1

CoreUnchanged ==
  UNCHANGED <<playing, name, ensemble, players, attached, registered, stopped, fresh>>

AddSetsRemoveClears ==
  /\ (call.op = "add" /\ call.threw = None) =>
       (ensemble[call.arg] = call.self /\ name[call.arg] = call.key)
  /\ (call.op = "remove" /\ call.threw = None /\ call.ret = "true") =>
       (ensemble[call.arg] = Undef /\ name[call.arg] = Undef)

\* remove(key) has just returned true for a player that add had attached.
RemoveClearedWitness ==
  /\ call.op = "remove" /\ call.ret = "true"
  /\ lastOp[call.self][call.key] = "remove"
  /\ call.arg \in Objects /\ name[call.arg] = Undef /\ ensemble[call.arg] = Undef

\* C3: after any sequence of calls that all ran to their end, every entry
\* (key, player) of every Ensemble's map has player.ensemble = that Ensemble and
\* player.name = key.
EntriesMatchBackReferences ==
  clean =>
    \A e \in Ensembles : \A i \in 1..Len(players[e]) :
      /\ ensemble[players[e][i].val] = e
      /\ name[players[e][i].val] = players[e][i].key

Owners(p) == {e \in Ensembles : \E i \in 1..Len(players[e]) : players[e][i].val = p}

\* C4: after any sequence of calls that all ran to their end, no Player is a
\* value in the maps of two different Ensembles.
AtMostOneOwner == clean => \A p \in Objects : Cardinality(Owners(p)) <= 1

\* C5: after any Ensemble operation every Player has name and ensemble both
\* defined or both undefined.
NameAndEnsembleTogether ==
  steps > 0 => \A p \in Constructed : (name[p] = Undef) <=> (ensemble[p] = Undef)

\* C6: add(name, p2) on an Ensemble that has an entry under name throws the
\* duplicate-name error, leaves every map, name, ensemble and playing field as
\* it was, and notifies no listener.
DuplicateAddChangesNothing ==
  [][(Called1 /\ call'.op = "add" /\ MapHas(players[call'.self], call'.key)) =>
       (call'.threw = "DuplicateName" /\ CoreUnchanged /\ log' = <<>>)]_vars

\* An add has just been refused for a name that is still a member.
DuplicateAddWitness ==
  /\ call.op = "add" /\ call.threw = "DuplicateName"
  /\ MapHas(players[call.self], call.key)
  /\ MapGet(players[call.self], call.key) # call.arg

Children(pl, e) == {pl[e][i].val : i \in 1..Len(pl[e])}

\* Everything held by e, directly or through nested Ensembles.
RECURSIVE Closure(_, _, _)
Closure(pl, S, n) ==
  IF n = 0 THEN S
  ELSE Closure(pl, S \cup UNION {Children(pl, x) : x \in S \cap Ensembles}, n - 1)

Inside(pl, e) == Closure(pl, Children(pl, e), Cardinality(Objects))

\* The children the receiver itself called play() or pause() on.
DirectlyInvoked(inv, e) == {inv[i].obj : i \in {j \in 1..Len(inv) : inv[j].by = e}}

\* C7: play() on a paused Ensemble invokes play() on exactly the children that
\* are paused and returns with the Ensemble and every child playing; pause() on
\* a playing Ensemble is the mirror image; play() on a playing Ensemble and
\* pause() on a paused one invoke nothing.
EnsembleToggleReachesEveryChild ==
  [][(/\ Called1 /\ clean'
      /\ call'.op \in {"play", "pause"} /\ call'.self \in Ensembles
      /\ call'.threw = None) =>
       LET e == call'.self
           target == (call'.op = "play")
           kids == Children(players, e)
       IN IF playing[e] = target
          THEN invoked' = <<>> /\ CoreUnchanged
          ELSE /\ DirectlyInvoked(invoked', e) = {c \in kids : playing[c] # target}
               /\ playing'[e] = target
               /\ \A c \in kids : playing'[c] = target]_vars

\* C8: when play() and then pause() have been called on an Ensemble, no Cue
\* held by it, directly or through nested Ensembles, is attached or has its
\* bound listener registered on the emitter.
PlayThenPauseDetachesCues ==
  [][(/\ Called1 /\ clean'
      /\ call.op = "play" /\ call.threw = None
      /\ call'.op = "pause" /\ call'.threw = None
      /\ call'.self = call.self /\ call.self \in Ensembles) =>
       \A c \in Cues \cap Inside(players', call.self) :
         /\ ~attached'[c]
         /\ \A i \in 1..Len(registered') : registered'[i] # BoundListener(c)]_vars

RECURSIVE ChainLength(_)
ChainLength(ev) == IF ev.source = <<>> THEN 1 ELSE 1 + ChainLength(ev.source[1])

\* C10: the Event an emit delivers at the i-th level (the emitting Player is
\* level 1, its Ensemble level 2, ...) has a source chain of length i, its
\* origin is the Event emitted by the Player, and its propagationPath lists the
\* emitters from the Player up to that level.
ProvenanceChainGrowsPerLevel ==
  (call.op = "emit" /\ call.threw = None) =>
    \A i \in 1..Len(log) :
      /\ ChainLength(log[i].ev) = i
      /\ origin(log[i].ev).emitter = call.self
      /\ propagationPath(log[i].ev) = [j \in 1..i |-> log[j].at]

\* The receiver of an emit and its ancestors, nearest first, as the ensemble
\* back-references give them.
RECURSIVE Ancestry(_, _)
Ancestry(p, n) ==
  IF n = 0 \/ ensemble[p] = Undef THEN <<p>>
  ELSE <<p>> \o Ancestry(ensemble[p], n - 1)

\* The notifications one EventEmitter owes for key: its listeners, in
\* registration order.
Owed(p, key) ==
  LET mine == SelectSeq(listeners[p], LAMBDA l : l.key = key)
  IN [i \in 1..Len(mine) |-> [at |-> p, by |-> mine[i].id]]

RECURSIVE OwedAlong(_, _, _)
OwedAlong(chain, key, i) ==
  IF i > Len(chain) THEN <<>>
  ELSE Owed(chain[i], key) \o OwedAlong(chain, key, i + 1)

\* The notifications that belong to call number n, in the order they happened.
HeardIn(n) ==
  LET mine == SelectSeq(heard, LAMBDA h : h.call = n)
  IN [i \in 1..Len(mine) |-> [at |-> mine[i].at, by |-> mine[i].by]]

\* C11: when emit returns, the listeners of the emitting Player have been
\* notified in registration order, then those of each ancestor Ensemble from the
\* nearest to the outermost; and the notifications of one emit call all come
\* before those of the next.
EmitNotifiesInOrder ==
  /\ (call.op = "emit" /\ call.threw = None) =>
       HeardIn(steps) = OwedAlong(Ancestry(call.self, Cardinality(Objects)), call.key, 1)
  /\ \A i, j \in 1..Len(heard) : i < j => heard[i].call <= heard[j].call

\* A second emit has returned on a Player with two listeners of its own and
\* listeners on two ancestors.
EmitOrderWitness ==
  /\ call.op = "emit" /\ call.threw = None
  /\ Len(listeners[call.self]) = 2
  /\ listeners[call.self][1].id # listeners[call.self][2].id
  /\ Len(Ancestry(call.self, Cardinality(Objects))) = 3
  /\ Len(HeardIn(steps)) = 4
  /\ \E h \in 1..Len(heard) : heard[h].call < steps

Settled(n) == promise[n].state \in {"resolved", "rejected"}

OnEmitter(l) == \E i \in 1..Len(registered) : registered[i] = l

\* C12: the awaitable of Cue.promise settles once: resolve or reject is called
\* at most once for it, no callback of it runs when it has settled, a settlement
\* through the handler leaves no timer armed, and a timeout rejection leaves no
\* handler on the emitter.
PromiseSettlesOnce ==
  \A n \in PromiseIds :
    /\ promise[n].attempts <= 1
    /\ ~promise[n].late
    /\ Settled(n) <=> promise[n].attempts = 1
    /\ (Settled(n) /\ promise[n].value.kind # "timeout") => promise[n].timer # "armed"
    /\ promise[n].value.kind = "timeout" =>
         (promise[n].timer = "fired" /\ ~OnEmitter(Handler("Q1", n)))

\* A promise has been rejected by its timer and another one settled by its
\* handler while its timer was armed.
SettlesOnceWitness ==
  /\ \E n \in PromiseIds : promise[n].value.kind = "timeout"
  /\ \E n \in PromiseIds : promise[n].state = "resolved" /\ promise[n].timer = "cleared"

\* C13: once the awaitable of Cue.promise has settled, by a resolution, by an
\* error of the listener or by the timeout, its handler is no longer on the
\* emitter, and it was already off when resolve or reject was called.
SettledPromiseLeavesNoHandler ==
  \A n \in PromiseIds :
    Settled(n) => (~OnEmitter(Handler("Q1", n)) /\ promise[n].tidy)

\* A timer has just rejected one promise after a firing resolved another,
\* while the Cue's own listener stays registered.
NoHandlerWitness ==
  /\ call.op = "timeout"
  /\ promise[call.key].value.kind = "timeout"
  /\ \E n \in PromiseIds : promise[n].state = "resolved"
  /\ OnEmitter(BoundListener("Q1"))
  /\ \A n \in PromiseIds : ~OnEmitter(Handler("Q1", n))

\* What the Cue's listener makes of the argument of a firing, and whether that
\* passes the predicate, written out case by case.
Qualifying(arg, pred) == arg = "x" \/ (arg = "empty" /\ pred = "defined")

Transformed(arg) == IF arg = "x" THEN "X" ELSE ""

\* C14: a firing whose transformed result satisfies the predicate resolves a
\* pending Cue.promise with that result; a firing whose result does not satisfy
\* it leaves the handler attached, the timer as it was and the awaitable
\* pending; and a settled awaitable keeps its outcome.
FirstQualifyingFiringResolves ==
  [][\A n \in PromiseIds :
       /\ (Called1 /\ call'.op = "fire" /\ promise[n].state = "pending"
             /\ call'.key \in {"x", "empty", "skip"}) =>
            IF Qualifying(call'.key, promise[n].pred)
            THEN /\ promise'[n].state = "resolved"
                 /\ promise'[n].value = [kind |-> "value", text |-> Transformed(call'.key)]
            ELSE /\ promise'[n] = [promise[n] EXCEPT !.skipped = @ + 1]
                 /\ \E i \in 1..Len(registered') : registered'[i] = Handler("Q1", n)
       /\ Settled(n) =>
            (promise'[n].state = promise[n].state /\ promise'[n].value = promise[n].value)
    ]_vars

\* A firing has just resolved one promise with the transformed result, after a
\* firing that did not qualify, and has left a stricter promise pending with
\* its handler attached and its timer running.
FirstQualifyingWitness ==
  /\ call.op = "fire" /\ call.key = "empty"
  /\ \E n \in PromiseIds :
       /\ promise[n].state = "resolved" /\ promise[n].skipped = 1
       /\ promise[n].value = [kind |-> "value", text |-> ""]
  /\ \E n \in PromiseIds :
       /\ promise[n].state = "pending" /\ promise[n].timer = "armed"
       /\ promise[n].skipped = 2
       /\ OnEmitter(Handler("Q1", n))

\* C15: a Cue.promise called with timeoutMillis > 0 does not stay pending: if
\* no firing settles it through the handler (firings that do not qualify do
\* not), its timer expires, and when the timer has expired the awaitable is
\* rejected with the Timeout error that names the Cue's event.
TimeoutRejectsInTheEnd ==
  /\ \A n \in PromiseIds :
       (promise[n].state = "pending" /\ promise[n].millis > 0) ~> Settled(n)
  /\ [](\A n \in PromiseIds :
          /\ (promise[n].state = "pending" /\ promise[n].millis > 0) =>
               promise[n].timer = "armed"
          /\ promise[n].timer = "fired" =>
               /\ promise[n].state = "rejected"
               /\ promise[n].value = [kind |-> "timeout", text |-> "event"])

\* A timer has just rejected a promise that saw only firings that did not
\* qualify.
TimeoutWitness ==
  /\ call.op = "timeout"
  /\ promise[call.key].skipped = 2
  /\ promise[call.key].state = "rejected"
  /\ promise[call.key].value = [kind |-> "timeout", text |-> "event"]

\* C16: a Cue.promise called with timeoutMillis = 0 has no timer and is never
\* rejected with the Timeout error; it stays pending with its handler on the
\* emitter, and only a firing that qualifies or a firing on which the listener
\* throws settles it.
ZeroTimeoutWaitsForFiring ==
  [][\A n \in PromiseIds :
       (promise'[n].state # "unborn" /\ promise'[n].millis = 0) =>
         /\ promise'[n].timer = "none"
         /\ promise'[n].value.kind # "timeout"
         /\ promise'[n].state = "pending" =>
              \E i \in 1..Len(registered') : registered'[i] = Handler("Q1", n)
         /\ (promise[n].state = "pending" /\ promise'[n].state # "pending") =>
              /\ call'.op = "fire"
              /\ Qualifying(call'.key, promise[n].pred) \/ call'.key = "boom"
    ]_vars

\* The timer of another promise has just expired, and the promise called with
\* timeoutMillis = 0 is still pending after a firing that did not qualify.
ZeroTimeoutWitness ==
  /\ call.op = "timeout"
  /\ \E n \in PromiseIds :
       /\ promise[n].millis = 0 /\ promise[n].state = "pending"
       /\ promise[n].skipped >= 1 /\ promise[n].timer = "none"
       /\ OnEmitter(Handler("Q1", n))

\* C17: when the Cue's listener throws on a firing while a Cue.promise is
\* pending, the handler is detached, the timer is no longer armed and the
\* awaitable is rejected with that error.
ListenerErrorRejects ==
  [][\A n \in PromiseIds :
       (Called1 /\ call'.op = "fire" /\ call'.key = "boom"
         /\ promise[n].state = "pending") =>
         /\ promise'[n].state = "rejected"
         /\ promise'[n].value = [kind |-> "error", text |-> "boom"]
         /\ promise'[n].timer # "armed"
         /\ \A i \in 1..Len(registered') : registered'[i] # Handler("Q1", n)
    ]_vars

\* How many times listener l is on the emitter.
Registrations(reg, l) == Cardinality({i \in 1..Len(reg) : reg[i] = l})

PromiseAndPlayAreIndependent ==
  [][\A c \in Cues :
       /\ (Called1 /\ call'.op \in {"promise", "fire", "timeout"}) =>
            /\ attached'[c] = attached[c]
            /\ playing'[c] = playing[c]
            /\ Registrations(registered', BoundListener(c))
                 = Registrations(registered, BoundListener(c))
       /\ (Called1 /\ call'.op \in {"play", "pause"}) =>
            /\ promise' = promise
            /\ \A n \in PromiseIds :
                 Registrations(registered', Handler(c, n))
                   = Registrations(registered, Handler(c, n))
    ]_vars

\* pause() has just returned on a detached Cue while one promise has been
\* resolved and another is pending with its handler attached and its timer armed.
IndependenceWitness ==
  /\ call.op = "pause" /\ ~attached["Q1"]
  /\ registered = <<Handler("Q1", "h2")>>
  /\ promise["h1"].state = "resolved"
  /\ promise["h2"].state = "pending" /\ promise["h2"].timer = "armed"

\* play() has been called once on o, which counts its iterations, and pause()
\* has not been called since.
PlayedOnce(o) ==
  Len(runs[o]) = 1 /\ ~stopped[o] /\ config[o].nTimes < Infinity

\* C20: play() on an Ostinato starts one repetition; with a finite count n and
\* no pause() the refrain is invoked at most n times, the repetition is over
\* exactly when it has been invoked n times, and the repetition does come to
\* its end.
OstinatoPlaysNTimes ==
  /\ [][\A o \in Ostinatos :
          (Called1 /\ call'.op = "play" /\ call'.self = o /\ runs[o] = <<>>) =>
            (Len(runs'[o]) = 1 /\ ~stopped'[o] /\ playing'[o])]_vars
  /\ [](\A o \in Ostinatos :
          PlayedOnce(o) =>
            /\ invocations[o] <= config[o].nTimes
            /\ runs[o][1].done <=> invocations[o] = config[o].nTimes)
  /\ \A o \in Ostinatos :
       PlayedOnce(o) ~> (~PlayedOnce(o) \/ runs[o][1].done)

\* An Ostinato with nTimes = 3, baseDelay = 10, factor = 1, played once and
\* never paused, has invoked its refrain three times and has come to its end.
ThreeTimesWitness ==
  /\ call.op = "elapse" /\ steps = 3
  /\ config["O1"].nTimes = 3 /\ config["O1"].baseDelay = 10 /\ config["O1"].factor = 1
  /\ Len(runs["O1"]) = 1 /\ ~stopped["O1"] /\ playing["O1"]
  /\ runs["O1"][1].done /\ invocations["O1"] = 3

\* The repetitions of o that have not come to their end.
Running(rs) == {i \in 1..Len(rs) : ~rs[i].done}

\* C21: pause() on an Ostinato raises the stop request, and while the request
\* stands (no play() follows) the refrain is not invoked: a wait that elapses
\* ends its repetition instead.
PauseStopsTheRefrain ==
  [][\A o \in Ostinatos :
       /\ (Called1 /\ call'.op = "pause" /\ call'.self = o)
            => (stopped'[o] /\ ~playing'[o])
       /\ (Called1 /\ stopped[o] /\ call'.op # "play") =>
            /\ invocations'[o] = invocations[o]
            /\ stopped'[o]
            /\ call'.op = "elapse" =>
                 Cardinality(Running(runs'[o])) = Cardinality(Running(runs[o])) - 1
    ]_vars

\* An Ostinato set to three iterations was paused after the first invocation;
\* the wait has elapsed and the repetition is over with one invocation.
PausedWitness ==
  /\ call.op = "elapse" /\ stopped["O1"] /\ ~playing["O1"]
  /\ config["O1"].nTimes = 3
  /\ Len(runs["O1"]) = 1 /\ runs["O1"][1].done
  /\ invocations["O1"] = 1

\* C22: after any calls of play() and pause() on an Ostinato, at most one
\* repetition is running.
OneSequenceAtATime ==
  \A o \in Ostinatos : Cardinality(Running(runs[o])) <= 1

\* C23: when a wait elapses and the refrain is invoked again, the next delay is
\* the previous one multiplied by the factor or, if that exceeds it, the
\* ceiling; it is not shorter than the previous one; and no delay exceeds the
\* configured ceiling.
DelayGrowsUpToCeiling ==
  [][\A o \in Ostinatos : \A i \in 1..Len(runs'[o]) :
       /\ runs'[o][i].delay <= config[o].maxDelay
       /\ (i <= Len(runs[o]) /\ runs'[o][i] # runs[o][i] /\ ~stopped[o]) =>
            /\ runs'[o][i].delay >= runs[o][i].delay
            /\ runs'[o][i].delay =
                 (IF runs[o][i].delay * config[o].factor > config[o].maxDelay
                  THEN config[o].maxDelay ELSE runs[o][i].delay * config[o].factor)
    ]_vars

\* With baseDelay = 10, factor = 2 and a ceiling of 15, the delay has grown
\* from 10 to the ceiling and stays there.
DelayWitness ==
  /\ call.op = "elapse" /\ ~stopped["O1"]
  /\ config["O1"] = [nTimes |-> Infinity, baseDelay |-> 10, factor |-> 2, maxDelay |-> 15]
  /\ Len(runs["O1"]) = 1 /\ runs["O1"][1].delay = 15
  /\ invocations["O1"] = 3

\* C24: rotate(name) on an Ensemble that has name moves that entry, with the
\* same player, behind all the others, which keep their order; it returns the
\* player, whose name and ensemble are (name, the Ensemble) again; nothing else
\* changes. When name is absent it returns undefined and changes nothing.
RotateByNameMovesEntryLast ==
  [][(Called1 /\ call'.op = "rotate" /\ call'.key \in Names) =>
       LET e == call'.self
           k == call'.key
           got == MapGet(players[e], k)
       IN IF MapHas(players[e], k)
          THEN /\ call'.threw = None /\ call'.ret = got
               /\ players'[e] = Append(MapDelete(players[e], k), [key |-> k, val |-> got])
               /\ name'[got] = k /\ ensemble'[got] = e
               /\ \A x \in Ensembles \ {e} : players'[x] = players[x]
               /\ \A p \in Objects \ {got} : name'[p] = name[p] /\ ensemble'[p] = ensemble[p]
               /\ playing' = playing
          ELSE call'.ret = Undef /\ CoreUnchanged
    ]_vars

\* C25: rotate() without a name on an Ensemble that is not empty moves the
\* entry that is first in the map's iteration order to the end and returns
\* its player.
RotateTakesFirstEntry ==
  [][(Called1 /\ clean' /\ call'.op = "rotate" /\ call'.key = Undef
       /\ Len(players[call'.self]) > 0) =>
       LET e == call'.self
           first == players[e][1]
       IN /\ call'.ret = first.val
          /\ players'[e] = Append(Tail(players[e]), first)
    ]_vars

\* cmp puts the entries of seq in order: no entry is followed by a smaller one.
InOrder(cmp, seq) ==
  \A i, j \in DOMAIN seq : i < j => Compare(cmp, seq[i], seq[j]) <= 0

\* The entries of a sequence, as a set.
Entries(seq) == {seq[i] : i \in DOMAIN seq}

\* C26: sort(cmp, limit) keeps the first `limit` entries of the sorted entry
\* list, in sorted order, and returns the other entries, in sorted order too;
\* kept and returned entries are disjoint and are together the entries before
\* the call; without limit nothing is returned and only the order changes.
SortKeepsTheFirstEntries ==
  [][(Called1 /\ call'.op = "sort") =>
       LET e == call'.self  cmp == call'.key  limit == call'.arg
           before == players[e]  kept == players'[e]  trimmed == call'.ret
           whole == kept \o trimmed
       IN /\ call'.threw = None
          /\ InOrder(cmp, whole)
          /\ Len(whole) = Len(before) /\ Entries(whole) = Entries(before)
          /\ Entries(kept) \cap Entries(trimmed) = {}
          /\ Len(kept) = IF limit = <<>> THEN Len(before) ELSE Min(limit[1], Len(before))
          /\ \A x \in Ensembles \ {e} : players'[x] = players[x]]_vars

\* The case of the test: the entries 'x', 'y' and 'z', sorted by name with
\* limit 2; 'z' came back and 'x', 'y' stayed, in this order.
SortWitness ==
  /\ call.op = "sort" /\ call.key = "asc" /\ call.arg = <<2>> /\ steps = 1
  /\ Len(call.ret) = 1 /\ call.ret[1].key = "z" /\ lastOp["E1"]["z"] = "trim"
  /\ Len(players["E1"]) = 2
  /\ players["E1"][1].key = "x" /\ players["E1"][2].key = "y"

\* C27: sort changes no player's name, ensemble or playing field and emits
\* nothing; the entries it discards are no longer members, and their name and
\* ensemble are what they were before the call.
SortLeavesPlayersAlone ==
  [][(Called1 /\ call'.op = "sort") =>
       LET e == call'.self  trimmed == call'.ret
       IN /\ name' = name /\ ensemble' = ensemble /\ playing' = playing
          /\ log' = <<>> /\ heard' = heard /\ invoked' = <<>>
          /\ \A i \in DOMAIN trimmed :
               /\ ~MapHas(players'[e], trimmed[i].key)
               /\ MapGet(players[e], trimmed[i].key) = trimmed[i].val
               /\ name'[trimmed[i].val] = name[trimmed[i].val]
               /\ ensemble'[trimmed[i].val] = ensemble[trimmed[i].val]]_vars

\* A discarded entry: its player is no member any more, and still carries the
\* name and the Ensemble it was added with.
DiscardedKeepsBackReferences ==
  /\ call.op = "sort" /\ Len(call.ret) > 0
  /\ LET x == call.ret[1]
     IN /\ ~MapHas(players[call.self], x.key)
        /\ name[x.val] = x.key /\ ensemble[x.val] = call.self

\* C28: get(name) modifies nothing; get(name, true) on an absent name adds a
\* new empty Ensemble under name, playing exactly when the parent plays, with
\* name and ensemble set, and returns it; get(name, true) on a present name
\* returns the existing player and creates nothing.
GetCreatesOnlyWhenAbsent ==
  [][(Called1 /\ call'.op = "get") =>
       LET e == call'.self  k == call'.key  creating == call'.arg
           made == call'.ret
       IN IF creating /\ ~MapHas(players[e], k)
          THEN /\ call'.threw = None
               /\ made \in Ensembles \ Constructed
               /\ made \notin {fresh'[i] : i \in 1..Len(fresh')}
               /\ players'[made] = <<>>
               /\ players'[e] = Append(players[e], [key |-> k, val |-> made])
               /\ playing'[made] = playing[e]
               /\ name'[made] = k /\ ensemble'[made] = e
               /\ \A x \in Ensembles \ {e, made} : players'[x] = players[x]
               /\ \A p \in Objects \ {made} :
                    /\ playing'[p] = playing[p]
                    /\ name'[p] = name[p] /\ ensemble'[p] = ensemble[p]
          ELSE /\ call'.threw = None
               /\ made = MapGet(players[e], k)
               /\ CoreUnchanged /\ log' = <<>> /\ invoked' = <<>>]_vars

\* C29: remove(name) returns true exactly when there was an entry under name,
\* and it calls pause() on nobody: the playing flag of the removed player, and
\* what its play() started (a Cue's listener, an Ostinato's repetition), are
\* after the call what they were before; on an absent name it returns false
\* and changes nothing.
RemoveDoesNotPause ==
  [][(Called1 /\ call'.op = "remove") =>
       LET e == call'.self  k == call'.key
       IN /\ call'.threw = None
          /\ call'.ret = IF MapHas(players[e], k) THEN "true" ELSE "false"
          /\ invoked' = <<>>
          /\ UNCHANGED <<playing, attached, registered, stopped, runs, invocations>>
          /\ MapHas(players[e], k) => ~MapHas(players'[e], k)
          /\ ~MapHas(players[e], k) => (CoreUnchanged /\ log' = <<>>)]_vars

\* An Ostinato that was playing when it was removed: it belongs to nobody now
\* and its repetition goes on.
RemovedStillPlaying ==
  /\ call.op = "remove" /\ call.ret = "true" /\ clean /\ call.arg \in Ostinatos
  /\ LET o == call.arg
     IN /\ name[o] = Undef /\ ensemble[o] = Undef
        /\ \A e \in Ensembles : \A i \in DOMAIN players[e] : players[e][i].val # o
        /\ playing[o] /\ ~stopped[o] /\ Running(runs[o]) # {}

\* The notifications of a change of p's own playing field among the emissions
\* of one call.
PlayingChanges(l, p) ==
  Cardinality({i \in DOMAIN l :
                 /\ l[i].at = p /\ l[i].ev.args = <<>>
                 /\ l[i].ev.type.kind = "propertychange"
                 /\ l[i].ev.type.args[1] = "playing"})

\* C30: after play() called twice in a row on a Player of any class, playing
\* is true and the two calls together notified at most one change of it;
\* likewise, with playing false, for pause() called twice in a row.
ToggleTwiceIsIdempotent ==
  [][(/\ Called1 /\ clean' /\ call.op \in {"play", "pause"} /\ call.threw = None
      /\ call'.op = call.op /\ call'.self = call.self) =>
       LET p == call'.self
       IN /\ call'.threw = None
          /\ playing'[p] = (call'.op = "play")
          /\ PlayingChanges(log, p) + PlayingChanges(log', p) <= 1]_vars

\* C31: let with the value the field already has changes nothing and emits
\* nothing; with another value it assigns the field and emits one change event
\* carrying (propertyName, oldValue, newValue), which reaches the listeners the
\* Player holds for the change event and, bubbled, those of its Ensembles.
LetNotifiesTheChange ==
  [][(Called1 /\ call'.op = "let") =>
       LET p == call'.self  value == call'.arg  oldValue == playing[p]
       IN IF oldValue = value
          THEN CoreUnchanged /\ log' = <<>> /\ heard' = heard
          ELSE /\ call'.threw = None
               /\ playing' = [playing EXCEPT ![p] = value]
               /\ PlayingChanges(log', p) = 1
               /\ \A i \in DOMAIN log' :
                    origin(log'[i].ev).type.args
                      = <<"playing", Show("playing", oldValue), Show("playing", value)>>
               /\ HeardIn(steps)'
                    = OwedAlong(Ancestry(p, Cardinality(Objects)), "propertychange", 1)]_vars

\* The listener is on one of the emitter's two lists.
Held(d, r, l) == (\E i \in DOMAIN d : d[i] = l) \/ (\E i \in DOMAIN r : r[i] = l)

\* C32: whatever combination of the recognised methods the emitter exposes,
\* pause() detaches through the family play() attached through: when pause()
\* returns on an attached Cue, the emitter holds the Cue's listener no more.
DetachMatchesAttach ==
  [][(Called1 /\ call'.op = "pause" /\ attached[call'.self]) =>
       /\ call'.threw = None
       /\ ~attached'[call'.self]
       /\ ~Held(dom', registered', BoundListener(call'.self))]_vars

\* C33: on an emitter with no recognised attach method play() raises the
\* unsupported-emitter error; a play() that raises leaves the Cue as it was,
\* not attached and with nothing registered; pause() on a Cue that is not
\* attached does nothing.
UnsupportedEmitterLeavesCueUnchanged ==
  [][/\ (Called1 /\ call'.op = "play" /\ methods \cap AttachMethods = {}) =>
          call'.threw = "Error"
     /\ (Called1 /\ call'.op = "play" /\ call'.threw # None) =>
          /\ call'.threw = "Error" /\ ~attached[call'.self]
          /\ UNCHANGED <<attached, registered, dom, playing, event>>
     /\ (Called1 /\ call'.op = "pause" /\ ~attached[call'.self]) =>
          /\ call'.threw = None
          /\ UNCHANGED <<attached, registered, dom, playing, event>>]_vars

\* play() has just raised on an emitter that only has detach methods.
UnsupportedEmitterWitness ==
  /\ call.op = "play" /\ call.threw = "Error"
  /\ methods # {} /\ methods \cap AttachMethods = {}
  /\ ~attached[call.self] /\ registered = <<>> /\ dom = <<>>

\* C34: new Cue(...) fails with a TypeError exactly when the event name is not
\* a non-empty string or the listener is not callable; otherwise it succeeds
\* and the Cue is not attached.
CueConstructorValidates ==
  [][(Called1 /\ call'.op = "new") =>
       LET c == call'.self  ev == call'.key  listener == call'.arg
           valid == ev = "'click'" /\ listener = "function"
       IN IF valid
          THEN call'.threw = None /\ event'[c] = "click" /\ ~attached'[c]
          ELSE call'.threw = "TypeError" /\ event'[c] = Undef]_vars

\* The players held by the Ensembles of a set.
HeldBy(set) ==
  UNION {{players[e][i].val : i \in DOMAIN players[e]} : e \in set \cap Ensembles}

\* The players reachable from e through nested Ensembles.
RECURSIVE Grow(_, _)
Grow(set, n) == IF n = 0 THEN set ELSE Grow(set \cup HeldBy(set), n - 1)

Below(e) == Grow(HeldBy({e}), Cardinality(Objects))

\* The places of p in a sequence.
Places(seq, p) == {i \in DOMAIN seq : seq[i] = p}

\* C35: descendants(includeEnsembles) returns every player that is not an
\* Ensemble and is reachable through nested Ensembles exactly once, in map
\* order, depth first; nested Ensembles are in the result exactly when
\* includeEnsembles is true, each right before the players below it.
DescendantsListsEachPlayerOnce ==
  (clean /\ call.op = "descendants") =>
    LET e == call.self  includeEnsembles == call.arg  got == call.ret
    IN /\ call.threw = None
       /\ \A p \in Below(e) \ Ensembles : Cardinality(Places(got, p)) = 1
       /\ \A p \in Below(e) \cap Ensembles :
            Cardinality(Places(got, p)) = IF includeEnsembles THEN 1 ELSE 0
       /\ \A i \in DOMAIN got : got[i] \in Below(e)
       /\ \A i, j \in DOMAIN players[e] :
            i < j => \A m \in Places(got, players[e][i].val),
                        n \in Places(got, players[e][j].val) : m < n
       /\ \A i \in DOMAIN got :
            got[i] \in Ensembles =>
              \A q \in Below(got[i]) \ Ensembles :
                \E j \in Places(got, q) : i < j /\ j <= i + Cardinality(Below(got[i]))

\* Propagations of event ev that the secondo emitted during the last call.
Propagated(l, ev) ==
  Cardinality({i \in 1..Len(l) : l[i].at = "S1" /\ l[i].key = ev /\ l[i].ev.emitter = "S1"
                                  /\ l[i].ev.source = <<>>})

\* Calls of listener id made at the secondo during call number n.
Deliveries(h, n, id) ==
  Cardinality({i \in 1..Len(h) : h[i].call = n /\ h[i].at = "S1" /\ h[i].by = id})

\* How often listener id is subscribed at the secondo under key.
Subscriptions(ls, key, id) ==
  Cardinality({i \in 1..Len(ls) : ls[i].key = key /\ ls[i].id = id})

\* C36: after any sequence of play() and pause() calls on an EmitterSecondo,
\* each configured event has exactly one handler of the secondo on the primo
\* while playing is true and none while it is false; a firing of the primo is
\* propagated exactly once while playing and not at all while paused.
SecondoPlayPauseAreIdempotent ==
  [][/\ \A i \in 1..Len(SecondoCues) :
          Registrations(dom' \o registered', BoundListener(SecondoCues[i]))
            = (IF playing'["S1"] THEN 1 ELSE 0)
     /\ (call'.op = "fire" =>
           /\ Propagated(log', call'.key) = (IF playing["S1"] THEN 1 ELSE 0)
           /\ \A n \in 1..Len(listeners["S1"]) :
                Deliveries(heard', steps', listeners["S1"][n].id)
                  = (IF playing["S1"]
                     THEN Subscriptions(listeners["S1"], call'.key, listeners["S1"][n].id)
                     ELSE 0))]_vars

\* The Ensembles above p, as the ensemble back-references give them.
Ancestors(p) ==
  LET chain == Ancestry(p, Cardinality(Objects))
  IN {chain[i] : i \in 2..Len(chain)}

\* C37: whatever add, get(name, true), remove and rotate calls were made, no
\* Ensemble is its own ancestor, neither through the players maps nor through
\* the ensemble back-references, and no call exhausts the stack.
OwnershipIsAForest ==
  /\ \A e \in Ensembles : e \notin Below(e) /\ e \notin Ancestors(e)
  /\ call.threw # "RangeError"

\* C38: add leaves every playing flag as it was and calls neither play() nor
\* pause(); play() on an Ensemble that is already playing changes nothing and
\* calls nothing, so a paused player added to a playing Ensemble stays paused.
AddNeverStartsOrStops ==
  [][/\ (Called1 /\ call'.op = "add") => (playing' = playing /\ invoked' = <<>>)
     /\ (Called1 /\ call'.op = "play" /\ call'.self \in Ensembles
           /\ playing[call'.self]) =>
          (playing' = playing /\ invoked' = <<>> /\ call'.threw = None)]_vars

\* play() was called on a playing Ensemble that holds a paused player.
PausedMemberOfPlayingEnsemble ==
  /\ call.op = "play" /\ call.self \in Ensembles /\ call.threw = None
  /\ invoked = <<>>
  /\ playing[call.self]
  /\ \E i \in DOMAIN players[call.self] :
       LET p == players[call.self][i].val
       IN p \notin Cues /\ ~playing[p] /\ ensemble[p] = call.self

\* The player the Ensemble e held under k when the behaviour began.
Former(e, k) == MapGet(TwoLevels.players[e], k)

\* Calls of listeners made at e during call number n.
HeardAt(h, n, e) == Cardinality({i \in 1..Len(h) : h[i].call = n /\ h[i].at = e})

\* The listeners e holds under key.
ListeningAt(ls, e, key) == Cardinality({i \in 1..Len(ls[e]) : ls[e][i].key = key})

\* C39: an event emitted by a player that sort discarded from an Ensemble is
\* still delivered to every listener of that Ensemble for the type; an event
\* emitted by a player that remove took out of an Ensemble is delivered to
\* none of that Ensemble's listeners.
DiscardedStillBubblesRemovedDoesNot ==
  [][(Called1 /\ call'.op = "emit") =>
       \A e \in Ensembles, k \in Names :
         (Former(e, k) = call'.self) =>
           /\ (lastOp[e][k] = "trim") =>
                /\ HeardAt(heard', steps', e) = ListeningAt(listeners, e, call'.key)
                /\ \E i \in 1..Len(log') : log'[i].at = e
           /\ (lastOp[e][k] = "remove") =>
                /\ HeardAt(heard', steps', e) = 0
                /\ \A i \in 1..Len(log') : log'[i].at # e]_vars

\* A discarded player emitted and a listener of the discarding Ensemble heard it.
DiscardedWasHeard ==
  /\ call.op = "emit" /\ call.threw = None
  /\ \E e \in Ensembles, k \in Names :
       /\ Former(e, k) = call.self /\ lastOp[e][k] = "trim"
       /\ ~has(Cur, e, k)
       /\ HeardAt(heard, steps, e) > 0

\* The handler of promise m is on the emitter.
HandlerOn(reg, m) == \E c \in Cues, i \in 1..Len(reg) : reg[i] = Handler(c, m)

\* C40: pending promise() calls on one Cue do not interfere: the handler of a
\* promise leaves the emitter and its timer stops being armed only in the step
\* in which that same promise settles; resolve or reject is called at most once
\* for it; and it settles only by its own timer or by a firing that its own
\* predicate accepts or that makes the listener throw.
PendingPromisesAreIndependent ==
  [][\A m \in PromiseIds :
       LET settled == promise[m].state = "pending" /\ promise'[m].state # "pending"
           result == rawListener(call'.key)
       IN /\ (HandlerOn(registered, m) /\ ~HandlerOn(registered', m)) => settled
          /\ (promise[m].timer = "armed" /\ promise'[m].timer # "armed") => settled
          /\ promise'[m].attempts <= 1
          /\ settled =>
               /\ ~HandlerOn(registered', m)
               /\ promise'[m].timer # "armed"
               /\ \/ /\ call'.op = "timeout" /\ call'.key = m
                     /\ promise[m].millis > 0
                     /\ promise'[m].state = "rejected"
                     /\ promise'[m].value.kind = "timeout"
                  \/ /\ call'.op = "fire"
                     /\ IF result.kind = "throw"
                        THEN /\ promise'[m].state = "rejected"
                             /\ promise'[m].value = [kind |-> "error", text |-> result.text]
                        ELSE /\ predicate(promise[m].pred, result)
                             /\ promise'[m].state = "resolved"
                             /\ promise'[m].value = result]_vars

\* One firing resolved the first promise and was let pass by the second, which
\* is still pending with its handler on the emitter and its timer armed.
OneSettledOtherPending ==
  /\ call.op = "fire"
  /\ promise["h1"].state = "resolved"
  /\ promise["h2"].state = "pending" /\ promise["h2"].skipped = 1
  /\ HandlerOn(registered, "h2")
  /\ promise["h2"].timer = "armed"

====
